---- MODULE Spec2Model ----
(***************************************************************************)
(* MeshLint: the rule-checking engine (MeshLintAnalyzer), the differ       *)
(* (MeshLintContinuousChecker.diff_analyses), the continuous monitor       *)
(* (MeshLintContinuousChecker.check, MeshLintVitalizer) and the text       *)
(* helpers of src/__init__.py, as a state machine.                         *)
(*                                                                         *)
(* Python values are dynamically typed; a value that may be None, a number *)
(* or a string is kept as a one-field record naming its type:              *)
(*   None, [int |-> n], [str |-> s], [list |-> seq].                       *)
(* Python strings are TLA+ strings, Python lists are sequences, and an     *)
(* element index i of the host mesh is the position i + 1 of a sequence.   *)
(***************************************************************************)
EXTENDS Integers, Sequences, FiniteSets, TLC

VARIABLES
    mesh,                \* the edit mesh of the active object (analyzer.b)
    props,               \* bpy.context.scene.meshlint_check_<symbol>
    counts,              \* lint['count'] of every entry of CHECKS
    analysis,            \* what find_problems returned (None before a run)
    num_problems_found,  \* MeshLintAnalyzer.num_problems_found
    before,              \* first argument of diff_analyses
    after,               \* second argument of diff_analyses
    diff_msg,            \* what diff_analyses returned
    dep_count,           \* depluralize: the count argument
    dep_string,          \* depluralize: the string argument
    dep_result,          \* depluralize: what it returned
    pc,                  \* "start" before the operation ran, "done" after
    is_live,             \* MeshLintVitalizer.is_live
    handlers,            \* bpy.app.handlers.depsgraph_update_post
    mode,                \* bpy.context.mode
    data,                \* bpy.context.active_object.data (the mesh datablock)
    previous_topology_counts, \* MeshLintContinuousChecker: None while absent
    previous_analysis,   \* MeshLintContinuousChecker.previous_analysis
    time_complained,     \* MeshLintContinuousChecker.time_complained
    header,              \* header text of the INFO areas (None: the default)
    now,                 \* time.time()
    calls,               \* what the last step of the add-on called, in order
    session_checks,      \* notifications since the last activation:
                         \* "none", "first" or "later"
    cmp_objs,            \* comparison of TopologyCounts: the objects counted
    cmp_result,          \* comparison of TopologyCounts: the outcomes
    registered,          \* whether the classes are registered with the host
    raised,              \* the exception the last call into the add-on
                         \* raised (None: it returned)
    crit_objects,        \* build_object_criticisms: the objects argument
    crit_total,          \* build_object_criticisms: total_problems
    crit_result          \* build_object_criticisms: what it returned

vars == <<mesh, props, counts, analysis, num_problems_found,
          before, after, diff_msg, dep_count, dep_string, dep_result, pc,
          is_live, handlers, mode, data, previous_topology_counts,
          previous_analysis, time_complained, header, now, calls,
          session_checks, cmp_objs, cmp_result, registered, raised,
          crit_objects, crit_total, crit_result>>

analyzerVars == <<mesh, props, counts, analysis, num_problems_found>>
differVars == <<before, after, diff_msg>>
depluralizeVars == <<dep_count, dep_string, dep_result>>
monitorVars == <<is_live, handlers, mode, data, previous_topology_counts,
                 previous_analysis, time_complained, header, now, calls,
                 session_checks, registered, raised>>
compareVars == <<cmp_objs, cmp_result>>
criticismVars == <<crit_objects, crit_total, crit_result>>

-----------------------------------------------------------------------------
(* Python values *)

None == [none |-> TRUE]
PyInt(n) == [int |-> n]
PyStr(s) == [str |-> s]
PyList(l) == [list |-> l]

\* not yet returned: the operation has not run
Unset == [unset |-> TRUE]

-----------------------------------------------------------------------------
(* Constants of src/__init__.py *)

COMPLAINT_TIMEOUT == 3
ELEM_TYPES == <<"verts", "edges", "faces">>

N_A_STR == "(N/A - disabled)"

TBD_STR == "..."

\* MeshLintAnalyzer.CHECKS, in the order of the CHECKS.append calls
CHECKS ==
    << [symbol |-> "tris",           label |-> "Tris",                 default |-> TRUE],
       [symbol |-> "ngons",          label |-> "Ngons",                default |-> TRUE],
       [symbol |-> "nonmanifold",    label |-> "Nonmanifold Elements", default |-> TRUE],
       [symbol |-> "interior_faces", label |-> "Interior Faces",       default |-> TRUE],
       [symbol |-> "three_poles",    label |-> "3-edge Poles",         default |-> FALSE],
       [symbol |-> "five_poles",     label |-> "5-edge Poles",         default |-> FALSE],
       [symbol |-> "sixplus_poles",  label |-> "6+-edge Poles",        default |-> TRUE] >>

Symbols == {CHECKS[i].symbol : i \in 1..Len(CHECKS)}

\* the defaults of the BoolProperty of every check
DefaultProps == [s \in Symbols |-> (CHOOSE i \in 1..Len(CHECKS) : CHECKS[i].symbol = s) \in
                                   {j \in 1..Len(CHECKS) : CHECKS[j].default}]

-----------------------------------------------------------------------------
(* Helpers standing for Python built-ins *)

\* the indices (0-based, in order) of the elements flagged TRUE: what the
\* loops `for elem in ...: if ...: bad[...].append(elem.index)` collect
IndicesWhere(flags) ==
    LET hit == SelectSeq([i \in 1..Len(flags) |-> i], LAMBDA i : flags[i])
    IN  [k \in 1..Len(hit) |-> hit[k] - 1]

\* sum of a sequence of numbers
RECURSIVE SumSeq(_)
SumSeq(s) == IF s = <<>> THEN 0 ELSE s[1] + SumSeq(Tail(s))

\* sep.join(strs)
RECURSIVE Join(_, _)
Join(strs, sep) ==
    IF strs = <<>> THEN ""
    ELSE IF Len(strs) = 1 THEN strs[1]
    ELSE strs[1] \o sep \o Join(Tail(strs), sep)

\* string.rstrip(ch): every trailing ch is removed
RECURSIVE rstrip(_, _)
rstrip(string, ch) ==
    IF Len(string) > 0 /\ SubSeq(string, Len(string), Len(string)) = ch
    THEN rstrip(SubSeq(string, 1, Len(string) - 1), ch)
    ELSE string

\* dict.get(key, default) on a dict kept as a function
DictGet(dict, key, default) == IF key \in DOMAIN dict THEN dict[key] ELSE default

-----------------------------------------------------------------------------
(* The host's edit mesh, as the accessor shows it:                         *)
(*   verts[i] = [link_edges: number of edges at the vertex, is_manifold]   *)
(*   edges[i] = [link_faces: number of faces at the edge, is_manifold]     *)
(*   faces[i] = [verts: number of corners, edges: indices of its edges]    *)
(* is_manifold is the host's predicate (an edge: exactly two faces; a      *)
(* vertex: not loose, on no wire edge and on no edge with > 2 faces).      *)

\* the largest polygon the mesh families are built from
MaxSides == 6

Rep(n, x) == [i \in 1..n |-> x]

EmptyMesh == [verts |-> <<>>, edges |-> <<>>, faces |-> <<>>]

\* one loose vertex
LooseVert == [verts |-> <<[link_edges |-> 0, is_manifold |-> FALSE]>>,
              edges |-> <<>>, faces |-> <<>>]

\* one wire edge
WireEdge == [verts |-> Rep(2, [link_edges |-> 1, is_manifold |-> FALSE]),
             edges |-> <<[link_faces |-> 0, is_manifold |-> FALSE]>>,
             faces |-> <<>>]

\* a single n-sided face
Polygon(n) ==
    [verts |-> Rep(n, [link_edges |-> 2, is_manifold |-> TRUE]),
     edges |-> Rep(n, [link_faces |-> 1, is_manifold |-> FALSE]),
     faces |-> <<[verts |-> n, edges |-> [i \in 1..n |-> i - 1]]>>]

\* a closed pyramid on an n-sided base: edges 0..n-1 the base, n..2n-1 the sides
Pyramid(n) ==
    [verts |-> Rep(n, [link_edges |-> 3, is_manifold |-> TRUE])
               \o <<[link_edges |-> n, is_manifold |-> TRUE]>>,
     edges |-> Rep(2 * n, [link_faces |-> 2, is_manifold |-> TRUE]),
     faces |-> <<[verts |-> n, edges |-> [i \in 1..n |-> i - 1]]>>
               \o [i \in 1..n |->
                     [verts |-> 3,
                      edges |-> <<i - 1, n + i - 1, n + (i % n)>>]]]

\* a closed prism on an n-sided base (n = 4: the default cube):
\* edges 0..n-1 the top ring, n..2n-1 the bottom ring, 2n..3n-1 the uprights
Prism(n) ==
    [verts |-> Rep(2 * n, [link_edges |-> 3, is_manifold |-> TRUE]),
     edges |-> Rep(3 * n, [link_faces |-> 2, is_manifold |-> TRUE]),
     faces |-> <<[verts |-> n, edges |-> [i \in 1..n |-> i - 1]],
                 [verts |-> n, edges |-> [i \in 1..n |-> n + i - 1]]>>
               \o [i \in 1..n |->
                     [verts |-> 4,
                      edges |-> <<i - 1, 2 * n + (i % n), n + i - 1, 2 * n + i - 1>>]]]

\* the prism after a loop cut and a face filled into the new ring
\* ("Ctrl+r a Default Cube and hit 'f'"): edges 0..n-1 top ring, n..2n-1 middle
\* ring, 2n..3n-1 bottom ring, 3n..4n-1 upper uprights, 4n..5n-1 lower uprights
CutPrism(n) ==
    [verts |-> Rep(n, [link_edges |-> 3, is_manifold |-> TRUE])
               \o Rep(n, [link_edges |-> 4, is_manifold |-> FALSE])
               \o Rep(n, [link_edges |-> 3, is_manifold |-> TRUE]),
     edges |-> Rep(n, [link_faces |-> 2, is_manifold |-> TRUE])
               \o Rep(n, [link_faces |-> 3, is_manifold |-> FALSE])
               \o Rep(3 * n, [link_faces |-> 2, is_manifold |-> TRUE]),
     faces |-> <<[verts |-> n, edges |-> [i \in 1..n |-> i - 1]],
                 [verts |-> n, edges |-> [i \in 1..n |-> 2 * n + i - 1]],
                 [verts |-> n, edges |-> [i \in 1..n |-> n + i - 1]]>>
               \o [i \in 1..n |->
                     [verts |-> 4,
                      edges |-> <<i - 1, 3 * n + (i % n), n + i - 1, 3 * n + i - 1>>]]
               \o [i \in 1..n |->
                     [verts |-> 4,
                      edges |-> <<n + i - 1, 4 * n + (i % n), 2 * n + i - 1, 4 * n + i - 1>>]]]

Meshes ==
    {EmptyMesh, LooseVert, WireEdge}
    \cup {Polygon(n) : n \in 3..MaxSides}
    \cup {Pyramid(n) : n \in 3..MaxSides}
    \cup {Prism(n) : n \in 3..MaxSides}
    \cup {CutPrism(n) : n \in 3..MaxSides}

-----------------------------------------------------------------------------
(* MeshLintAnalyzer: the checks.  Each returns the dict `bad`, a function  *)
(* from the element kinds it fills to the list of flagged indices.         *)

\* variant: three sides or more
check_tris_three_or_more(b) ==
    [k \in {"faces"} |->
        IndicesWhere([i \in 1..Len(b.faces) |-> 3 <= b.faces[i].verts])]

check_tris(b) ==
    [k \in {"faces"} |->
        IndicesWhere([i \in 1..Len(b.faces) |-> 3 = b.faces[i].verts])]

\* variant: four sides are already too many
check_ngons_from_quads(b) ==
    [k \in {"faces"} |->
        IndicesWhere([i \in 1..Len(b.faces) |-> 4 <= b.faces[i].verts])]

check_ngons(b) ==
    [k \in {"faces"} |->
        IndicesWhere([i \in 1..Len(b.faces) |-> 4 < b.faces[i].verts])]

check_nonmanifold(b) ==
    [k \in {"verts", "edges"} |->
        IndicesWhere([i \in 1..Len(b[k]) |-> ~b[k][i].is_manifold])]

\* variant: one crowded edge is enough
check_interior_faces_any_edge(b) ==
    [k \in {"faces"} |->
        IndicesWhere([i \in 1..Len(b.faces) |->
            \E j \in 1..Len(b.faces[i].edges) :
                ~(3 > b.edges[b.faces[i].edges[j] + 1].link_faces)])]

check_interior_faces(b) ==
    [k \in {"faces"} |->
        IndicesWhere([i \in 1..Len(b.faces) |->
            ~(\E j \in 1..Len(b.faces[i].edges) :
                  3 > b.edges[b.faces[i].edges[j] + 1].link_faces)])]

check_three_poles(b) ==
    [k \in {"verts"} |->
        IndicesWhere([i \in 1..Len(b.verts) |-> 3 = b.verts[i].link_edges])]

check_five_poles(b) ==
    [k \in {"verts"} |->
        IndicesWhere([i \in 1..Len(b.verts) |-> 5 = b.verts[i].link_edges])]

\* variant: five edges are already six or more
check_sixplus_poles_from_five(b) ==
    [k \in {"verts"} |->
        IndicesWhere([i \in 1..Len(b.verts) |-> 5 <= b.verts[i].link_edges])]

check_sixplus_poles(b) ==
    [k \in {"verts"} |->
        IndicesWhere([i \in 1..Len(b.verts) |-> 5 < b.verts[i].link_edges])]

\* getattr(type(self), 'check_' + lint['symbol'])(self)
check_method(symbol, b) ==
    CASE symbol = "tris" -> check_tris(b)
      [] symbol = "ngons" -> check_ngons(b)
      [] symbol = "nonmanifold" -> check_nonmanifold(b)
      [] symbol = "interior_faces" -> check_interior_faces(b)
      [] symbol = "three_poles" -> check_three_poles(b)
      [] symbol = "five_poles" -> check_five_poles(b)
      [] symbol = "sixplus_poles" -> check_sixplus_poles(b)

-----------------------------------------------------------------------------
(* MeshLintAnalyzer.find_problems.  A report is the dict                   *)
(*   {'lint': lint, 'verts': [...], 'edges': [...], 'faces': [...]}        *)
(* kept as [lint |-> [label |-> ...], items |-> the other keys in the      *)
(* order they were inserted, each [elemtype |-> ..., indices |-> ...]].    *)

\* the report of one enabled check: lines 89-93
ReportOf(lint, b) ==
    LET bad == check_method(lint.symbol, b)
    IN  [lint |-> [label |-> lint.label],
         items |-> [i \in 1..Len(ELEM_TYPES) |->
                      [elemtype |-> ELEM_TYPES[i],
                       indices |-> DictGet(bad, ELEM_TYPES[i], <<>>)]]]

\* len(indices) summed over ELEM_TYPES: what lines 94-95 add for one report
ReportCount(report) ==
    SumSeq([i \in 1..Len(report.items) |-> Len(report.items[i].indices)])

\* find_problems_step with a bug: a disabled check gets a report with empty
\* lists instead of none
find_problems_step_reports_disabled(lint, b, should_check, acc) ==
    IF ~should_check[lint.symbol]
    THEN [acc EXCEPT !.counts[lint.symbol] = PyStr(N_A_STR),
                     !.analysis = Append(@,
                         [lint |-> [label |-> lint.label],
                          items |-> [i \in 1..Len(ELEM_TYPES) |->
                                       [elemtype |-> ELEM_TYPES[i], indices |-> <<>>]]])]
    ELSE LET report == ReportOf(lint, b)
         IN  [analysis |-> Append(acc.analysis, report),
              counts |-> [acc.counts EXCEPT ![lint.symbol] = PyInt(ReportCount(report))],
              num |-> acc.num + ReportCount(report)]

\* find_problems_step with a bug: the total is raised after the loop over
\* ELEM_TYPES, by the length of the last list only
find_problems_step_total_last_kind(lint, b, should_check, acc) ==
    IF ~should_check[lint.symbol]
    THEN [acc EXCEPT !.counts[lint.symbol] = PyStr(N_A_STR)]
    ELSE LET report == ReportOf(lint, b)
         IN  [analysis |-> Append(acc.analysis, report),
              counts |-> [acc.counts EXCEPT ![lint.symbol] = PyInt(ReportCount(report))],
              num |-> acc.num + Len(report.items[Len(report.items)].indices)]

\* find_problems_step with a bug: a disabled check gets the count 0
find_problems_step_zero_count(lint, b, should_check, acc) ==
    IF ~should_check[lint.symbol]
    THEN [acc EXCEPT !.counts[lint.symbol] = PyInt(0)]
    ELSE LET report == ReportOf(lint, b)
         IN  [analysis |-> Append(acc.analysis, report),
              counts |-> [acc.counts EXCEPT ![lint.symbol] = PyInt(ReportCount(report))],
              num |-> acc.num + ReportCount(report)]

\* one turn of the loop of lines 81-96 for the check `lint`; acc holds the
\* list `analysis`, lint['count'] of every check and self.num_problems_found
find_problems_step(lint, b, should_check, acc) ==
    IF ~should_check[lint.symbol]
    THEN [acc EXCEPT !.counts[lint.symbol] = PyStr(N_A_STR)]
    ELSE LET report == ReportOf(lint, b)
         IN  [analysis |-> Append(acc.analysis, report),
              counts |-> [acc.counts EXCEPT ![lint.symbol] = PyInt(ReportCount(report))],
              num |-> acc.num + ReportCount(report)]

RECURSIVE find_problems_loop(_, _, _, _)
find_problems_loop(i, b, should_check, acc) ==
    IF i > Len(CHECKS) THEN acc
    ELSE find_problems_loop(i + 1, b, should_check,
                            find_problems_step(CHECKS[i], b, should_check, acc))

\* find_problems on the mesh b with the scene's check properties; counts0 is
\* lint['count'] of every check before the call
find_problems(b, should_check, counts0) ==
    find_problems_loop(1, b, should_check,
                       [analysis |-> <<>>, counts |-> counts0, num |-> 0])

\* found_zero_problems
found_zero_problems(num) == PyInt(0) = num

\* MeshLintAnalyzer.none_analysis
none_analysis ==
    [i \in 1..Len(CHECKS) |->
        [lint |-> [label |-> CHECKS[i].label],
         items |-> [j \in 1..Len(ELEM_TYPES) |->
                      [elemtype |-> ELEM_TYPES[j], indices |-> <<>>]]]]

-----------------------------------------------------------------------------
(* The analyzer as a state machine: a mesh and a check configuration are   *)
(* given, find_problems runs once on a fresh MeshLintAnalyzer.             *)

IdleDiffer == before = None /\ after = <<>> /\ diff_msg = Unset
IdleDepluralize == dep_count = 0 /\ dep_string = "" /\ dep_result = Unset

IdleCompare == cmp_objs = <<>> /\ cmp_result = Unset
IdleCriticisms == crit_objects = <<>> /\ crit_total = 0 /\ crit_result = Unset

\* time.time() counts from the epoch: the clock starts past the timeout
StartTime == COMPLAINT_TIMEOUT + 1

\* the add-on as loaded and registered: the class attributes of
\* MeshLintVitalizer and MeshLintContinuousChecker, nothing subscribed, the
\* host in object mode
IdleMonitor ==
    /\ registered = TRUE
    /\ raised = None
    /\ is_live = FALSE
    /\ handlers = <<>>
    /\ mode = "OBJECT"
    /\ data = "Mesh"
    /\ previous_topology_counts = None
    /\ previous_analysis = None
    /\ time_complained = PyInt(0)
    /\ header = None
    /\ now = StartTime
    /\ calls = <<>>
    /\ session_checks = "none"

InitAnalyzer ==
    /\ mesh \in Meshes
    /\ props \in [Symbols -> BOOLEAN]
    /\ counts = [s \in Symbols |-> PyStr(TBD_STR)]
    /\ analysis = None
    /\ num_problems_found = None
    /\ IdleDiffer
    /\ IdleDepluralize
    /\ IdleMonitor
    /\ IdleCompare
    /\ IdleCriticisms
    /\ pc = "start"

FindProblems ==
    /\ pc = "start"
    /\ LET r == find_problems(mesh, props, counts)
       IN  /\ analysis' = PyList(r.analysis)
           /\ counts' = r.counts
           /\ num_problems_found' = PyInt(r.num)
    /\ pc' = "done"
    /\ UNCHANGED <<mesh, props, differVars, depluralizeVars, monitorVars, compareVars, criticismVars>>

NextAnalyzer == FindProblems

SpecAnalyzer == InitAnalyzer /\ [][NextAnalyzer]_vars

-----------------------------------------------------------------------------
(* depluralize(count=..., string=...) *)

depluralize(count, string) ==
    IF 1 = count THEN rstrip(string, "s") ELSE string

-----------------------------------------------------------------------------
(* MeshLintContinuousChecker.make_labels_dict and diff_analyses.           *)
(* A dict keyed by label is a function on the labels; the value for a      *)
(* label is the report without its 'lint' key: its items, in order.        *)

\* the labels of the reports of a list `analysis`
LabelsOf(a) == {a[i].lint.label : i \in 1..Len(a)}

\* make_labels_dict: None gives {}; a later report replaces an earlier one
\* with the same label
make_labels_dict(a) ==
    IF None = a THEN <<>>
    ELSE [label \in LabelsOf(a.list) |->
            LET last == CHOOSE i \in 1..Len(a.list) :
                          /\ a.list[i].lint.label = label
                          /\ \A j \in 1..Len(a.list) :
                                a.list[j].lint.label = label => j <= i
            IN  a.list[last].items]

\* report_before.get(elemtype, []) on the items of a report ({} is <<>>)
ItemsGet(items, elemtype) ==
    IF \E i \in 1..Len(items) : items[i].elemtype = elemtype
    THEN items[CHOOSE i \in 1..Len(items) : items[i].elemtype = elemtype].indices
    ELSE <<>>

\* check_elem_strings with a bug: >= for >
check_elem_strings_ge(report, report_before) ==
    LET grew == SelectSeq(report,
                    LAMBDA item : Len(item.indices) >= Len(ItemsGet(report_before, item.elemtype)))
    IN  [i \in 1..Len(grew) |->
            LET count_diff == Len(grew[i].indices)
                              - Len(ItemsGet(report_before, grew[i].elemtype))
            IN  ToString(count_diff) \o " " \o depluralize(count_diff, grew[i].elemtype)]

\* check_elem_strings with a bug: the number told is len(elem_list)
check_elem_strings_total(report, report_before) ==
    LET grew == SelectSeq(report,
                    LAMBDA item : Len(item.indices) > Len(ItemsGet(report_before, item.elemtype)))
    IN  [i \in 1..Len(grew) |->
            LET count_diff == Len(grew[i].indices)
            IN  ToString(count_diff) \o " " \o depluralize(count_diff, grew[i].elemtype)]

\* check_elem_strings with a bug: the loop runs over ELEM_TYPES, not over the
\* keys of the report
check_elem_strings_elem_types_order(report, report_before) ==
    LET grew == SelectSeq(ELEM_TYPES,
                    LAMBDA elemtype : Len(ItemsGet(report, elemtype))
                                        > Len(ItemsGet(report_before, elemtype)))
    IN  [i \in 1..Len(grew) |->
            LET count_diff == Len(ItemsGet(report, grew[i]))
                              - Len(ItemsGet(report_before, grew[i]))
            IN  ToString(count_diff) \o " " \o depluralize(count_diff, grew[i])]

\* lines 372-378: the strings of one check, one per element kind that grew
check_elem_strings(report, report_before) ==
    LET grew == SelectSeq(report,
                    LAMBDA item : Len(item.indices) > Len(ItemsGet(report_before, item.elemtype)))
    IN  [i \in 1..Len(grew) |->
            LET count_diff == Len(grew[i].indices)
                              - Len(ItemsGet(report_before, grew[i].elemtype))
            IN  ToString(count_diff) \o " " \o depluralize(count_diff, grew[i].elemtype)]

\* report_strings with a bug: the loop stops after the first check it tells
report_strings_first_only(dict_before, dict_now) ==
    LET present == SelectSeq(CHECKS, LAMBDA check : check.label \in DOMAIN dict_now)
        strs == [i \in 1..Len(present) |->
                    check_elem_strings(dict_now[present[i].label],
                                       DictGet(dict_before, present[i].label, <<>>))]
        told == SelectSeq([i \in 1..Len(present) |-> i], LAMBDA i : strs[i] # <<>>)
    IN  [k \in 1..(IF told = <<>> THEN 0 ELSE 1) |->
            present[told[k]].label \o ": " \o Join(strs[told[k]], ", ")]

\* report_strings with a bug: a check that `before` does not hold is skipped
report_strings_skip_new(dict_before, dict_now) ==
    LET present == SelectSeq(CHECKS, LAMBDA check : /\ check.label \in DOMAIN dict_now
                                                    /\ check.label \in DOMAIN dict_before)
        strs == [i \in 1..Len(present) |->
                    check_elem_strings(dict_now[present[i].label],
                                       dict_before[present[i].label])]
        told == SelectSeq([i \in 1..Len(present) |-> i], LAMBDA i : strs[i] # <<>>)
    IN  [k \in 1..Len(told) |->
            present[told[k]].label \o ": " \o Join(strs[told[k]], ", ")]

\* lines 366-380: the list report_strings
report_strings(dict_before, dict_now) ==
    LET present == SelectSeq(CHECKS, LAMBDA check : check.label \in DOMAIN dict_now)
        strs == [i \in 1..Len(present) |->
                    check_elem_strings(dict_now[present[i].label],
                                       DictGet(dict_before, present[i].label, <<>>))]
        told == SelectSeq([i \in 1..Len(present) |-> i], LAMBDA i : strs[i] # <<>>)
    IN  [k \in 1..Len(told) |->
            present[told[k]].label \o ": " \o Join(strs[told[k]], ", ")]

\* lines 361-362: a missing `before` is none_analysis()
BaselineOf(b) == IF None = b THEN PyList(none_analysis) ELSE b

\* diff_analyses with a bug: no previous analysis, nothing to tell
diff_analyses_none_early(b, a) ==
    IF None = b THEN None
    ELSE LET strs == report_strings(make_labels_dict(b), make_labels_dict(a))
         IN  IF strs # <<>> THEN PyStr("Found " \o Join(strs, ", ")) ELSE None

\* diff_analyses with a bug: the loop goes over the reports of `after`
diff_analyses_iterates_after(b, a) ==
    LET dict_before == make_labels_dict(BaselineOf(b))
        strs == [i \in 1..Len(a.list) |->
                    check_elem_strings(a.list[i].items,
                                       DictGet(dict_before, a.list[i].lint.label, <<>>))]
        told == SelectSeq([i \in 1..Len(a.list) |-> i], LAMBDA i : strs[i] # <<>>)
        report_strs == [k \in 1..Len(told) |->
                           a.list[told[k]].lint.label \o ": " \o Join(strs[told[k]], ", ")]
    IN  IF report_strs # <<>> THEN PyStr("Found " \o Join(report_strs, ", ")) ELSE None

\* diff_analyses(before, after): before is None or a list, after a list
diff_analyses(b, a) ==
    LET strs == report_strings(make_labels_dict(BaselineOf(b)), make_labels_dict(a))
    IN  IF strs # <<>> THEN PyStr("Found " \o Join(strs, ", ")) ELSE None

-----------------------------------------------------------------------------
(* The arguments diff_analyses is exercised on: the calls of               *)
(* TestAnalysis.test_comparison, and every pair of lists of reports with   *)
(* distinct labels that flags at most MaxElems elements.                   *)

\* most flagged elements in `before` and `after` together
MaxElems == 2

\* labels of the reports: two registered checks and one that is not
\* (the labels of the third call of test_comparison)
InputLabels == {"Tris", "Nonmanifold Elements", "CheckB"}

\* the key orders of the reports: the one of find_problems and of
\* test_comparison, and the one of test_make_labels_dict
KeyOrders == {<<"verts", "edges", "faces">>, <<"edges", "verts", "faces">>}

\* sequences of distinct labels
LabelSeqs ==
    UNION {{ls \in [1..k -> InputLabels] : \A i, j \in 1..k : i # j => ls[i] # ls[j]}
           : k \in 0..Cardinality(InputLabels)}

\* the sequences of n numbers that add up to at most m
RECURSIVE Sizes(_, _)
Sizes(n, m) ==
    IF n = 0 THEN {<<>>}
    ELSE UNION {{<<x>> \o sz : sz \in Sizes(n - 1, m - x)} : x \in 0..m}

\* the list base+1 .. base+n
IndexList(n, base) == [i \in 1..n |-> base + i]

\* the analysis with the labels ls and the keys in the order keys; its lists
\* have the lengths sz[from+1], sz[from+2], ...
MakeAnalysis(ls, sz, from, keys, base) ==
    [i \in 1..Len(ls) |->
        [lint |-> [label |-> ls[i]],
         items |-> [j \in 1..Len(keys) |->
                      [elemtype |-> keys[j],
                       indices |-> IndexList(sz[from + Len(keys) * (i - 1) + j], base)]]]]

\* a report of test_comparison
TestReport(label, verts, edges, faces) ==
    [lint |-> [label |-> label],
     items |-> <<[elemtype |-> "verts", indices |-> verts],
                 [elemtype |-> "edges", indices |-> edges],
                 [elemtype |-> "faces", indices |-> faces]>>]

\* the four calls of test_comparison: <<before, after>>
TestPairs ==
    { <<PyList(none_analysis), none_analysis>>,
      <<None, <<TestReport("Tris", <<1, 2, 3, 4>>, <<>>, <<>>)>> >>,
      << PyList(<<TestReport("Tris", <<>>, <<1, 4>>, <<>>),
                  TestReport("CheckB", <<>>, <<2, 3>>, <<>>),
                  TestReport("Nonmanifold Elements", <<>>, <<>>, <<2, 3>>)>>),
         <<TestReport("Tris", <<>>, <<1, 4, 5, 6>>, <<>>),
           TestReport("CheckB", <<>>, <<2, 3>>, <<>>),
           TestReport("Nonmanifold Elements", <<1, 2, 3, 4>>, <<>>, <<1, 2, 3, 5>>)>> >>,
      << PyList(<<TestReport("6+-edge Poles", <<>>, <<2, 3>>, <<>>),
                  TestReport("Nonmanifold Elements", <<>>, <<2, 3>>, <<>>)>>),
         <<TestReport("Tris", <<55, 56>>, <<>>, <<>>),
           TestReport("Ngons", <<>>, <<>>, <<5, 6>>),
           TestReport("Nonmanifold Elements", <<>>, <<2, 3, 4, 5>>, <<>>)>> >> }

\* before is None, after any list
InitNoBefore ==
    /\ before = None
    /\ \E ls \in LabelSeqs, keys \in KeyOrders :
         \E sz \in Sizes(Len(ls) * Len(ELEM_TYPES), MaxElems) :
            after = MakeAnalysis(ls, sz, 0, keys, 0)

\* before and after any two lists; the elements of before are the ones of
\* after, or others
InitTwoLists ==
    \E lb \in LabelSeqs, la \in LabelSeqs, keys \in KeyOrders, base \in {0, MaxElems} :
       \E sz \in Sizes((Len(lb) + Len(la)) * Len(ELEM_TYPES), MaxElems) :
          /\ before = PyList(MakeAnalysis(lb, sz, 0, ELEM_TYPES, base))
          /\ after = MakeAnalysis(la, sz, Len(lb) * Len(ELEM_TYPES), keys, 0)

InitTestPairs == \E pair \in TestPairs : before = pair[1] /\ after = pair[2]

\* a first analysis, and one after a clean one, whose reports come against
\* the registry order with a report of no registered check between them
MixedReports ==
    <<TestReport("Nonmanifold Elements", <<>>, <<0>>, <<>>),
      TestReport("CheckB", <<0>>, <<>>, <<>>),
      TestReport("Tris", <<>>, <<>>, <<0>>)>>

InitMixedReports ==
    /\ before \in {None,
                    PyList(<<TestReport("Tris", <<>>, <<>>, <<>>),
                             TestReport("CheckB", <<>>, <<>>, <<>>),
                             TestReport("Nonmanifold Elements", <<>>, <<>>, <<>>)>>)}
    /\ after = MixedReports

InitDiffer ==
    /\ InitNoBefore \/ InitTwoLists \/ InitTestPairs \/ InitMixedReports
    /\ diff_msg = Unset
    /\ mesh = EmptyMesh
    /\ props = DefaultProps
    /\ counts = [s \in Symbols |-> PyStr(TBD_STR)]
    /\ analysis = None
    /\ num_problems_found = None
    /\ IdleDepluralize
    /\ IdleMonitor
    /\ IdleCompare
    /\ IdleCriticisms
    /\ pc = "start"

DiffAnalyses ==
    /\ pc = "start"
    /\ diff_msg' = diff_analyses(before, PyList(after))
    /\ pc' = "done"
    /\ UNCHANGED <<before, after, analyzerVars, depluralizeVars, monitorVars, compareVars, criticismVars>>

NextDiffer == DiffAnalyses

SpecDiffer == InitDiffer /\ [][NextDiffer]_vars

-----------------------------------------------------------------------------
(* depluralize on its own: a count and a string are given, it runs once.   *)

\* longest generated string
MaxStrLen == 3

\* largest count
MaxCount == 2

\* the letters of the generated strings
Letters == {"s", "S", "x"}

\* the strings of TestUtilities.test_depluralize and the element kinds
TestWords == {"foos", "FOOS", "foxes", "Blueberries", "sheep", "verts", "edges", "faces"}

\* strings as add_criticism hands them over, a label after its count, and
\* a word that ends in more than one 's'
LabelWords == {"1x Tris", "1x Ngons", "1x Interior Faces", "glass"}

RECURSIVE StringsUpTo(_)
StringsUpTo(n) ==
    IF n = 0 THEN {""}
    ELSE LET shorter == StringsUpTo(n - 1)
         IN  shorter \cup {str \o ch : str \in shorter, ch \in Letters}

InitDepluralize ==
    /\ dep_count \in 0..MaxCount
    /\ dep_string \in StringsUpTo(MaxStrLen) \cup TestWords \cup LabelWords
    /\ dep_result = Unset
    /\ IdleDiffer
    /\ mesh = EmptyMesh
    /\ props = DefaultProps
    /\ counts = [s \in Symbols |-> PyStr(TBD_STR)]
    /\ analysis = None
    /\ num_problems_found = None
    /\ IdleMonitor
    /\ IdleCompare
    /\ IdleCriticisms
    /\ pc = "start"

Depluralize ==
    /\ pc = "start"
    /\ dep_result' = PyStr(depluralize(dep_count, dep_string))
    /\ pc' = "done"
    /\ UNCHANGED <<dep_count, dep_string, analyzerVars, differVars, monitorVars, compareVars, criticismVars>>

NextDepluralize == Depluralize

SpecDepluralize == InitDepluralize /\ [][NextDepluralize]_vars

-----------------------------------------------------------------------------
(* The continuous monitor: MeshLintVitalizer toggles the subscription of   *)
(* meshlint_gbl_continuous_check to depsgraph_update_post, and every       *)
(* notification runs MeshLintContinuousChecker.check.  The host edits the  *)
(* mesh, enters and leaves edit mode, activates another object, and time   *)
(* passes.                                                                 *)

\* seconds the clock advances at most
MaxTicks == 5

\* the datablocks of the scene's mesh objects, by name
DataNames == {"Mesh", "Mesh.001"}

\* what the edit mesh can be: nothing, a lone triangle (a tri on an open
\* border), the default cube (clean) and the cut cube (an interior face)
MonitorMeshes == {EmptyMesh, Polygon(3), Prism(4), CutPrism(4)}

CALLBACK == "meshlint_gbl_continuous_check"

\* a handler that another add-on subscribed to depsgraph_update_post
FOREIGN == "foreign_handler"

Holds(list, x) == \E i \in DOMAIN list : list[i] = x

\* list.remove: drops the first occurrence
RECURSIVE Remove(_, _)
Remove(list, x) ==
    IF list = <<>> THEN <<>>
    ELSE IF Head(list) = x THEN Tail(list)
    ELSE <<Head(list)>> \o Remove(Tail(list), x)

is_edit_mode(m) == "EDIT_MESH" = m

\* variant: the counts alone, the same 'data' for every mesh
topology_counts_no_identity(d, b) ==
    [data |-> "Mesh",
     faces |-> Len(b.faces),
     edges |-> Len(b.edges),
     verts |-> Len(b.verts)]

\* MeshLintAnalyzer.topology_counts
topology_counts(d, b) ==
    [data |-> d,
     faces |-> Len(b.faces),
     edges |-> Len(b.edges),
     verts |-> Len(b.verts)]

\* Python's == of two dicts: the same keys, and equal values under each
dict_eq(x, y) ==
    /\ DOMAIN x = DOMAIN y
    /\ \A k \in DOMAIN x : x[k] = y[k]

\* the condition of the recompute
needs_recompute(previous, now_counts) ==
    None = previous \/ ~dict_eq(now_counts, previous)

\* MeshLintContinuousChecker.announce: the header text of the INFO areas
announce(message) ==
    IF None = message THEN None ELSE PyStr("MeshLint: " \o message.str)

\* the fields check reads and writes
CheckerState ==
    [previous_topology_counts |-> previous_topology_counts,
     previous_analysis |-> previous_analysis,
     time_complained |-> time_complained,
     header |-> header,
     counts |-> counts,
     calls |-> <<>>]

\* variant: the caches follow only a recompute that had something to say
check_recompute_caches_on_diff(s, d, b, should_check, t) ==
    LET now_counts == topology_counts(d, b)
    IN  IF needs_recompute(s.previous_topology_counts, now_counts)
        THEN LET r == find_problems(b, should_check, s.counts)
                 msg == diff_analyses(s.previous_analysis, PyList(r.analysis))
             IN  IF msg # None
                 THEN [s EXCEPT !.header = announce(msg),
                                !.time_complained = PyInt(t),
                                !.calls = @ \o <<"find_problems", "announce">>,
                                !.previous_topology_counts = now_counts,
                                !.previous_analysis = PyList(r.analysis),
                                !.counts = r.counts]
                 ELSE [s EXCEPT !.calls = @ \o <<"find_problems">>,
                                !.counts = r.counts]
        ELSE s

\* variant: every recompute stamps time_complained
check_recompute_always_stamps(s, d, b, should_check, t) ==
    LET now_counts == topology_counts(d, b)
    IN  IF needs_recompute(s.previous_topology_counts, now_counts)
        THEN LET r == find_problems(b, should_check, s.counts)
                 msg == diff_analyses(s.previous_analysis, PyList(r.analysis))
                 told == IF msg # None
                         THEN [s EXCEPT !.header = announce(msg),
                                        !.calls = @ \o <<"find_problems", "announce">>]
                         ELSE [s EXCEPT !.calls = @ \o <<"find_problems">>]
             IN  [told EXCEPT !.time_complained = PyInt(t),
                              !.previous_topology_counts = now_counts,
                              !.previous_analysis = PyList(r.analysis),
                              !.counts = r.counts]
        ELSE s

\* variant: the cached analysis is used for the mesh it was made of only
check_recompute_keyed_by_mesh(s, d, b, should_check, t) ==
    LET now_counts == topology_counts(d, b)
        cached == IF s.previous_topology_counts # None
                     /\ s.previous_topology_counts.data = d
                  THEN s.previous_analysis ELSE None
    IN  IF needs_recompute(s.previous_topology_counts, now_counts)
        THEN LET r == find_problems(b, should_check, s.counts)
                 msg == diff_analyses(cached, PyList(r.analysis))
                 told == IF msg # None
                         THEN [s EXCEPT !.header = announce(msg),
                                        !.time_complained = PyInt(t),
                                        !.calls = @ \o <<"find_problems", "announce">>]
                         ELSE [s EXCEPT !.calls = @ \o <<"find_problems">>]
             IN  [told EXCEPT !.previous_topology_counts = now_counts,
                              !.previous_analysis = PyList(r.analysis),
                              !.counts = r.counts]
        ELSE s

\* check, first half: the recompute
check_recompute(s, d, b, should_check, t) ==
    LET now_counts == topology_counts(d, b)
    IN  IF needs_recompute(s.previous_topology_counts, now_counts)
        THEN LET r == find_problems(b, should_check, s.counts)
                 msg == diff_analyses(s.previous_analysis, PyList(r.analysis))
                 told == IF msg # None
                         THEN [s EXCEPT !.header = announce(msg),
                                        !.time_complained = PyInt(t),
                                        !.calls = @ \o <<"find_problems", "announce">>]
                         ELSE [s EXCEPT !.calls = @ \o <<"find_problems">>]
             IN  [told EXCEPT !.previous_topology_counts = now_counts,
                              !.previous_analysis = PyList(r.analysis),
                              !.counts = r.counts]
        ELSE s

\* variant: the complaint times out at the timeout, not after it
check_expiry_at_timeout(s, t) ==
    IF s.time_complained # None /\ COMPLAINT_TIMEOUT <= t - s.time_complained.int
    THEN [s EXCEPT !.header = announce(None),
                   !.time_complained = None,
                   !.calls = @ \o <<"announce(None)">>]
    ELSE s

\* check, second half: the complaint times out
check_expiry(s, t) ==
    IF s.time_complained # None /\ COMPLAINT_TIMEOUT < t - s.time_complained.int
    THEN [s EXCEPT !.header = announce(None),
                   !.time_complained = None,
                   !.calls = @ \o <<"announce(None)">>]
    ELSE s

\* variant: the timeout is polled in every mode
check_expiry_in_any_mode(s, m, d, b, should_check, t) ==
    IF ~is_edit_mode(m) THEN check_expiry(s, t)
    ELSE check_expiry(check_recompute(s, d, b, should_check, t), t)

\* MeshLintContinuousChecker.check
check(s, m, d, b, should_check, t) ==
    IF ~is_edit_mode(m) THEN s
    ELSE check_expiry(check_recompute(s, d, b, should_check, t), t)

\* meshlint_gbl_continuous_check: calls MeshLintContinuousChecker.check
meshlint_gbl_continuous_check(s, m, d, b, t) ==
    check([s EXCEPT !.calls = @ \o <<"check">>], m, d, b, props, t)

\* the host calls every handler of depsgraph_update_post in turn; a handler
\* of another add-on does not touch this one
RECURSIVE run_handlers(_, _, _, _, _, _)
run_handlers(hs, s, m, d, b, t) ==
    IF hs = <<>> THEN s
    ELSE IF Head(hs) = CALLBACK
    THEN run_handlers(Tail(hs), meshlint_gbl_continuous_check(s, m, d, b, t), m, d, b, t)
    ELSE run_handlers(Tail(hs), s, m, d, b, t)

\* variant: stopping leaves the header text
execute_keeps_header(v) ==
    IF v.is_live
    THEN IF ~Holds(v.handlers, CALLBACK)
         THEN [v EXCEPT !.raised = PyStr("ValueError")]
         ELSE [is_live |-> FALSE,
               handlers |-> Remove(v.handlers, CALLBACK),
               header |-> v.header,
               raised |-> None]
    ELSE [is_live |-> TRUE,
          handlers |-> Append(v.handlers, CALLBACK),
          header |-> v.header,
          raised |-> None]

\* MeshLintVitalizer.execute; list.remove raises ValueError when the list
\* does not hold the callback, before anything else is assigned
execute(v) ==
    IF v.is_live
    THEN IF ~Holds(v.handlers, CALLBACK)
         THEN [v EXCEPT !.raised = PyStr("ValueError")]
         ELSE [is_live |-> FALSE,
               handlers |-> Remove(v.handlers, CALLBACK),
               header |-> None,
               raised |-> None]
    ELSE [is_live |-> TRUE,
          handlers |-> Append(v.handlers, CALLBACK),
          header |-> v.header,
          raised |-> None]

\* the class attributes and host state that execute reads and assigns
VitalizerState ==
    [is_live |-> is_live, handlers |-> handlers, header |-> header, raised |-> raised]

InitMonitor ==
    /\ mesh \in MonitorMeshes
    /\ props = DefaultProps
    /\ counts = [s \in Symbols |-> PyStr(TBD_STR)]
    /\ analysis = None
    /\ num_problems_found = None
    /\ IdleDiffer
    /\ IdleDepluralize
    /\ IdleMonitor
    /\ IdleCompare
    /\ IdleCriticisms
    /\ pc = "start"

idleVars == <<props, analysis, num_problems_found, differVars, depluralizeVars,
              compareVars, criticismVars, pc>>
hostVars == <<idleVars, registered>>
checkerVars == <<previous_topology_counts, previous_analysis, time_complained, counts>>

\* variant: stopping forgets the cached analysis and counts
LiveToggle_forgets_caches ==
    /\ registered
    /\ is_edit_mode(mode)
    /\ LET v == execute(VitalizerState)
       IN  /\ is_live' = v.is_live
           /\ handlers' = v.handlers
           /\ header' = v.header
           /\ raised' = v.raised
    /\ IF is_live
       THEN previous_analysis' = None /\ previous_topology_counts' = None
       ELSE UNCHANGED <<previous_analysis, previous_topology_counts>>
    /\ calls' = <<"execute">>
    /\ session_checks' = "none"
    /\ UNCHANGED <<mesh, mode, data, now, time_complained, counts, hostVars>>

\* variant: stopping forgets the timestamp of the complaint
LiveToggle_forgets_timestamp ==
    /\ registered
    /\ is_edit_mode(mode)
    /\ LET v == execute(VitalizerState)
       IN  /\ is_live' = v.is_live
           /\ handlers' = v.handlers
           /\ header' = v.header
           /\ raised' = v.raised
    /\ time_complained' = IF is_live THEN None ELSE time_complained
    /\ calls' = <<"execute">>
    /\ session_checks' = "none"
    /\ UNCHANGED <<mesh, mode, data, now, previous_analysis,
                   previous_topology_counts, counts, hostVars>>

\* the operator meshlint.live_toggle: poll, then execute
LiveToggle ==
    /\ registered
    /\ is_edit_mode(mode)
    /\ LET v == execute(VitalizerState)
       IN  /\ is_live' = v.is_live
           /\ handlers' = v.handlers
           /\ header' = v.header
           /\ raised' = v.raised
    /\ calls' = <<"execute">>
    /\ session_checks' = "none"
    /\ UNCHANGED <<mesh, mode, data, now, checkerVars, hostVars>>

\* a depsgraph update: the subscribed handlers run
Notify ==
    /\ handlers # <<>>
    /\ LET s == run_handlers(handlers, CheckerState, mode, data, mesh, now)
       IN  /\ previous_topology_counts' = s.previous_topology_counts
           /\ previous_analysis' = s.previous_analysis
           /\ time_complained' = s.time_complained
           /\ header' = s.header
           /\ counts' = s.counts
           /\ calls' = s.calls
    /\ session_checks' = IF ~Holds(handlers, CALLBACK) THEN session_checks
                         ELSE IF session_checks = "none" THEN "first" ELSE "later"
    /\ raised' = None
    /\ UNCHANGED <<mesh, mode, data, now, is_live, handlers, hostVars>>

\* the user edits the mesh
EditMesh ==
    /\ is_edit_mode(mode)
    /\ mesh' \in MonitorMeshes \ {mesh}
    /\ calls' = <<>>
    /\ UNCHANGED <<session_checks, mode, data, now, is_live, handlers, header, checkerVars,
                   raised, hostVars>>

EnterEditMode ==
    /\ ~is_edit_mode(mode)
    /\ mode' = "EDIT_MESH"
    /\ calls' = <<>>
    /\ UNCHANGED <<session_checks, mesh, data, now, is_live, handlers, header, checkerVars,
                   raised, hostVars>>

LeaveEditMode ==
    /\ is_edit_mode(mode)
    /\ mode' = "OBJECT"
    /\ calls' = <<>>
    /\ UNCHANGED <<session_checks, mesh, data, now, is_live, handlers, header, checkerVars,
                   raised, hostVars>>

\* the user makes another mesh object the active one
ActivateObject ==
    /\ ~is_edit_mode(mode)
    /\ data' \in DataNames \ {data}
    /\ mesh' \in MonitorMeshes
    /\ calls' = <<>>
    /\ UNCHANGED <<session_checks, mode, now, is_live, handlers, header, checkerVars,
                   raised, hostVars>>

Tick ==
    /\ now < StartTime + MaxTicks
    /\ now' = now + 1
    /\ calls' = <<>>
    /\ UNCHANGED <<session_checks, mesh, mode, data, is_live, handlers, header, checkerVars,
                   raised, hostVars>>

NextMonitor ==
    \/ LiveToggle
    \/ Notify
    \/ EditMesh
    \/ EnterEditMode
    \/ LeaveEditMode
    \/ ActivateObject
    \/ Tick

SpecMonitor == InitMonitor /\ [][NextMonitor]_vars

-----------------------------------------------------------------------------
(* The life cycle of the add-on: the host disables it (unregister) and     *)
(* enables it again (register) between toggles and notifications, and      *)
(* another add-on subscribes a handler of its own to the same list.        *)

\* how many handlers of other add-ons the list holds at most
MaxForeign == 1

\* variant: unregister leaves the handler list alone
unregister_handlers_keeps_all(hs) == hs

\* the first loop of unregister: a for loop over the list that removes from
\* it, so the iterator's position i moves on over the shortened list
RECURSIVE unregister_loop(_, _)
unregister_loop(hs, i) ==
    IF i > Len(hs) THEN hs
    ELSE IF hs[i] = CALLBACK
    THEN unregister_loop(Remove(hs, hs[i]), i + 1)
    ELSE unregister_loop(hs, i + 1)

unregister_handlers(hs) == unregister_loop(hs, 1)

InitLifecycle ==
    /\ mesh \in MonitorMeshes
    /\ props = DefaultProps
    /\ counts = [s \in Symbols |-> PyStr(TBD_STR)]
    /\ analysis = None
    /\ num_problems_found = None
    /\ IdleDiffer
    /\ IdleDepluralize
    /\ IdleMonitor
    /\ IdleCompare
    /\ IdleCriticisms
    /\ pc = "start"

lifecycleFrame == <<mesh, mode, data, now, is_live, header, session_checks,
                    checkerVars, idleVars>>

\* unregister(): the handlers, then the classes; is_live is not assigned
Unregister ==
    /\ registered
    /\ handlers' = unregister_handlers(handlers)
    /\ registered' = FALSE
    /\ raised' = None
    /\ calls' = <<"unregister">>
    /\ UNCHANGED lifecycleFrame

\* register(): the classes
Register ==
    /\ ~registered
    /\ registered' = TRUE
    /\ raised' = None
    /\ calls' = <<"register">>
    /\ UNCHANGED <<handlers, lifecycleFrame>>

\* another add-on appends a handler of its own
ForeignSubscribe ==
    /\ Cardinality({i \in DOMAIN handlers : handlers[i] = FOREIGN}) < MaxForeign
    /\ handlers' = Append(handlers, FOREIGN)
    /\ calls' = <<>>
    /\ UNCHANGED <<raised, registered, lifecycleFrame>>

NextLifecycle ==
    \/ LiveToggle
    \/ Notify
    \/ EditMesh
    \/ EnterEditMode
    \/ LeaveEditMode
    \/ Unregister
    \/ Register
    \/ ForeignSubscribe

SpecLifecycle == InitLifecycle /\ [][NextLifecycle]_vars

-----------------------------------------------------------------------------
(* The comparison of TopologyCounts on its own: three objects, each a mesh *)
(* datablock and what the edit mesh holds, are counted and the counts      *)
(* compared as check compares them.                                        *)

\* how many objects are counted and compared
MaxCompared == 3

CountedObjects == [data : DataNames, b : MonitorMeshes]

InitCompare ==
    /\ cmp_objs \in [1..MaxCompared -> CountedObjects]
    /\ cmp_result = Unset
    /\ mesh = EmptyMesh
    /\ props = DefaultProps
    /\ counts = [s \in Symbols |-> PyStr(TBD_STR)]
    /\ analysis = None
    /\ num_problems_found = None
    /\ IdleDiffer
    /\ IdleDepluralize
    /\ IdleMonitor
    /\ IdleCriticisms
    /\ pc = "start"

\* the counts of every object, every pair compared with ==, and the
\* condition of the recompute with the first as the cache
Compare ==
    /\ pc = "start"
    /\ LET tc == [i \in DOMAIN cmp_objs |->
                    topology_counts(cmp_objs[i].data, cmp_objs[i].b)]
       IN  cmp_result' =
              [counts |-> tc,
               eq |-> [i \in DOMAIN tc |-> [j \in DOMAIN tc |-> dict_eq(tc[i], tc[j])]],
               recompute |-> [j \in DOMAIN tc |-> needs_recompute(tc[1], tc[j])]]
    /\ pc' = "done"
    /\ UNCHANGED <<cmp_objs, analyzerVars, differVars, depluralizeVars, monitorVars,
                   criticismVars>>

NextCompare == Compare

SpecCompare == InitCompare /\ [][NextCompare]_vars

-----------------------------------------------------------------------------
(* The mode helpers: ensure_edit_mode and ensure_not_edit_mode are called  *)
(* while a mesh object is active, in whatever mode the host is; the user   *)
(* switches the mode in between.                                           *)

\* bpy.context.mode while a mesh object is active
HostModes == {"OBJECT", "EDIT_MESH", "SCULPT", "PAINT_VERTEX", "PAINT_WEIGHT",
              "PAINT_TEXTURE"}

\* bpy.ops.object.editmode_toggle on a mesh object: leaves edit mode for
\* object mode, enters edit mode from every other mode
editmode_toggle(m) == IF m = "EDIT_MESH" THEN "OBJECT" ELSE "EDIT_MESH"

\* variant: the toggle is not guarded by is_edit_mode
ensure_edit_mode_always_toggles(m) ==
    [mode |-> editmode_toggle(m),
     calls |-> <<"ensure_edit_mode", "editmode_toggle">>]

ensure_edit_mode(m) ==
    IF ~is_edit_mode(m)
    THEN [mode |-> editmode_toggle(m),
          calls |-> <<"ensure_edit_mode", "editmode_toggle">>]
    ELSE [mode |-> m, calls |-> <<"ensure_edit_mode">>]

ensure_not_edit_mode(m) ==
    IF is_edit_mode(m)
    THEN [mode |-> editmode_toggle(m),
          calls |-> <<"ensure_not_edit_mode", "editmode_toggle">>]
    ELSE [mode |-> m, calls |-> <<"ensure_not_edit_mode">>]

InitMode ==
    /\ mesh \in MonitorMeshes
    /\ props = DefaultProps
    /\ counts = [s \in Symbols |-> PyStr(TBD_STR)]
    /\ analysis = None
    /\ num_problems_found = None
    /\ IdleDiffer
    /\ IdleDepluralize
    /\ IdleCompare
    /\ IdleCriticisms
    /\ is_live = FALSE
    /\ handlers = <<>>
    /\ mode \in HostModes
    /\ data \in DataNames
    /\ previous_topology_counts = None
    /\ previous_analysis = None
    /\ time_complained = PyInt(0)
    /\ header = None
    /\ now = StartTime
    /\ calls = <<>>
    /\ session_checks = "none"
    /\ registered = TRUE
    /\ raised = None
    /\ pc = "start"

modeFrame == <<mesh, data, now, is_live, handlers, header, session_checks,
               checkerVars, raised, hostVars>>

EnsureEditMode ==
    /\ LET r == ensure_edit_mode(mode)
       IN  mode' = r.mode /\ calls' = r.calls
    /\ UNCHANGED modeFrame

EnsureNotEditMode ==
    /\ LET r == ensure_not_edit_mode(mode)
       IN  mode' = r.mode /\ calls' = r.calls
    /\ UNCHANGED modeFrame

\* the user switches the mode of the active object
SwitchMode ==
    /\ mode' \in HostModes \ {mode}
    /\ calls' = <<>>
    /\ UNCHANGED modeFrame

NextMode ==
    \/ EnsureEditMode
    \/ EnsureNotEditMode
    \/ SwitchMode

SpecMode == InitMode /\ [][NextMode]_vars

-----------------------------------------------------------------------------
(* The criticisms of the side panel: build_object_criticisms is handed the *)
(* selected objects and the number of problems found, and runs once.       *)

\* how many objects are selected at most
MaxObjects == 2

\* the largest total_problems
MaxProblems == 2

\* scales, a component kept as a whole number (1 for 1.0): applied, one
\* axis scaled, every axis scaled
Scales == {<<1, 1, 1>>, <<1, 2, 1>>, <<2, 2, 2>>}

default_names ==
    <<"BezierCircle", "BezierCurve", "Circle", "Cone", "Cube", "CurvePath",
      "Cylinder", "Grid", "Icosphere", "Mball", "Monkey", "NurbsCircle",
      "NurbsCurve", "NurbsPath", "Plane", "Sphere", "Surface", "SurfCircle",
      "SurfCurve", "SurfCylinder", "SurfPatch", "SurfSphere", "SurfTorus",
      "Text", "Torus">>

Digits == {"0", "1", "2", "3", "4", "5", "6", "7", "8", "9"}

\* has_unapplied_scale: 3 != len([c for c in scale if c == 1.0])
has_unapplied_scale(scale) ==
    3 # Cardinality({i \in DOMAIN scale : scale[i] = 1})

\* the rest of a name after a default name: \.?\d*$
IsSuffix(rest) ==
    LET body == IF Len(rest) > 0 /\ SubSeq(rest, 1, 1) = "."
                THEN SubSeq(rest, 2, Len(rest)) ELSE rest
    IN  \A i \in 1..Len(body) : SubSeq(body, i, i) \in Digits

\* is_bad_name: re.match(rf'({"|".join(default_names)})\.?\d*$', name)
is_bad_name(name) ==
    \E i \in DOMAIN default_names :
        LET d == default_names[i]
        IN  /\ Len(d) <= Len(name)
            /\ SubSeq(name, 1, Len(d)) = d
            /\ IsSuffix(SubSeq(name, Len(d) + 1, Len(name)))

\* add_crit: the line that is appended; the conjunction is read from
\* already_complained when the line is added
add_crit(obj, crit, already_complained) ==
    LET conjunction == IF already_complained THEN "and also" ELSE "but"
    IN  "..." \o conjunction \o " \"" \o obj.name \o "\" " \o crit \o "."

\* variant: the loop of build_object_criticisms, where only a bad name
\* counts as a complaint
RECURSIVE criticisms_loop_scale_keeps_quiet(_, _, _)
criticisms_loop_scale_keeps_quiet(objects, already_complained, criticisms) ==
    IF objects = <<>> THEN criticisms
    ELSE LET obj == Head(objects)
             scaled == has_unapplied_scale(obj.scale)
             named == is_bad_name(obj.name)
             c1 == IF scaled
                   THEN Append(criticisms,
                               add_crit(obj, "has an unapplied scale", already_complained))
                   ELSE criticisms
             c2 == IF named
                   THEN Append(c1, add_crit(obj, "is not a great name", already_complained))
                   ELSE c1
         IN  criticisms_loop_scale_keeps_quiet(Tail(objects),
                                               already_complained \/ named, c2)

\* variant of build_object_criticisms
build_object_criticisms_scale_keeps_quiet(objects, total_problems) ==
    criticisms_loop_scale_keeps_quiet(objects, total_problems > 0, <<>>)

\* the loop of build_object_criticisms over the objects
RECURSIVE criticisms_loop(_, _, _)
criticisms_loop(objects, already_complained, criticisms) ==
    IF objects = <<>> THEN criticisms
    ELSE LET obj == Head(objects)
             scaled == has_unapplied_scale(obj.scale)
             named == is_bad_name(obj.name)
             c1 == IF scaled
                   THEN Append(criticisms,
                               add_crit(obj, "has an unapplied scale", already_complained))
                   ELSE criticisms
             a1 == already_complained \/ scaled
             c2 == IF named
                   THEN Append(c1, add_crit(obj, "is not a great name", a1))
                   ELSE c1
         IN  criticisms_loop(Tail(objects), a1 \/ named, c2)

\* MESH_PT_MeshLintControl.build_object_criticisms
build_object_criticisms(objects, total_problems) ==
    criticisms_loop(objects, total_problems > 0, <<>>)

\* names of the add-on's tests and of the host's defaults
ObjectNames == {"lsmft", "Cube", "Sphere", "Cube.001", "Cubes", "Text.1x"}

\* MockBlenderObject: a name and a scale
MockBlenderObjects == [name : ObjectNames, scale : Scales]

InitCriticisms ==
    /\ crit_objects \in UNION {[1..n -> MockBlenderObjects] : n \in 0..MaxObjects}
    /\ crit_total \in 0..MaxProblems
    /\ crit_result = Unset
    /\ mesh = EmptyMesh
    /\ props = DefaultProps
    /\ counts = [s \in Symbols |-> PyStr(TBD_STR)]
    /\ analysis = None
    /\ num_problems_found = None
    /\ IdleDiffer
    /\ IdleDepluralize
    /\ IdleMonitor
    /\ IdleCompare
    /\ pc = "start"

BuildObjectCriticisms ==
    /\ pc = "start"
    /\ crit_result' = PyList(build_object_criticisms(crit_objects, crit_total))
    /\ pc' = "done"
    /\ UNCHANGED <<crit_objects, crit_total, analyzerVars, differVars, depluralizeVars,
                   monitorVars, compareVars>>

NextCriticisms == BuildObjectCriticisms

SpecCriticisms == InitCriticisms /\ [][NextCriticisms]_vars

-----------------------------------------------------------------------------
(* Properties of find_problems (SpecAnalyzer)                              *)

\* the registered checks that are enabled / disabled, in registry order
EnabledChecks == SelectSeq(CHECKS, LAMBDA lint : props[lint.symbol])
DisabledChecks == SelectSeq(CHECKS, LAMBDA lint : ~props[lint.symbol])

\* every list of the report is empty
EmptyReport(report) ==
    \A i \in 1..Len(report.items) : report.items[i].indices = <<>>

\* the report has the keys verts, edges, faces
HasElemTypes(report) ==
    {report.items[i].elemtype : i \in 1..Len(report.items)}
        = {ELEM_TYPES[i] : i \in 1..Len(ELEM_TYPES)}

\* the lists of the report of the list a labelled `label`, added up
CountOfLabel(a, label) ==
    LET i == CHOOSE i \in 1..Len(a) : a[i].lint.label = label
    IN  SumSeq([j \in 1..Len(a[i].items) |-> Len(a[i].items[j].indices)])

\* C1 as claimed: after find_problems the analysis holds one report per check of
\* CHECKS, in registry order, the disabled ones included; a disabled check's
\* report has empty verts, edges and faces lists and its count is the sentinel.
C1_ReportPerCheck ==
    pc = "done" =>
        /\ Len(analysis.list) = Len(CHECKS)
        /\ \A i \in 1..Len(CHECKS) :
              /\ analysis.list[i].lint.label = CHECKS[i].label
              /\ HasElemTypes(analysis.list[i])
              /\ ~props[CHECKS[i].symbol] =>
                    /\ counts[CHECKS[i].symbol] = PyStr(N_A_STR)
                    /\ EmptyReport(analysis.list[i])

\* C1 amended: after find_problems the analysis holds one report per ENABLED
\* check of CHECKS, in registry order, each with the keys verts, edges, faces;
\* a disabled check has no report, and its count is the sentinel.
C1_ReportPerEnabledCheck ==
    pc = "done" =>
        /\ Len(analysis.list) = Len(EnabledChecks)
        /\ \A i \in 1..Len(EnabledChecks) :
              /\ analysis.list[i].lint.label = EnabledChecks[i].label
              /\ HasElemTypes(analysis.list[i])
        /\ \A i \in 1..Len(DisabledChecks) :
              /\ counts[DisabledChecks[i].symbol] = PyStr(N_A_STR)
              /\ DisabledChecks[i].label \notin LabelsOf(analysis.list)

\* find_problems ran with the default configuration (two checks disabled) on
\* the default cube
C1_Witness ==
    /\ pc = "done"
    /\ mesh = Prism(4)
    /\ props = DefaultProps
    /\ Len(analysis.list) = 5
    /\ counts["three_poles"] = PyStr(N_A_STR)

\* C2: after find_problems, num_problems_found is the sum of the counts of the
\* enabled checks, the count of an enabled check is the sum of the lengths of
\* its verts, edges and faces lists, and no disabled check has a number to add.
C2_TotalIsSumOfEnabled ==
    pc = "done" =>
        /\ num_problems_found =
              PyInt(SumSeq([i \in 1..Len(EnabledChecks) |->
                               counts[EnabledChecks[i].symbol].int]))
        /\ \A i \in 1..Len(EnabledChecks) :
              /\ EnabledChecks[i].label \in LabelsOf(analysis.list)
              /\ counts[EnabledChecks[i].symbol] =
                    PyInt(CountOfLabel(analysis.list, EnabledChecks[i].label))
        /\ \A i \in 1..Len(DisabledChecks) :
              counts[DisabledChecks[i].symbol] = PyStr(N_A_STR)

\* find_problems ran on the cut cube with the default configuration: problems
\* of more than one kind are found, and the disabled 3-edge pole check, which
\* would flag the eight corners, adds nothing
C2_Witness ==
    /\ pc = "done"
    /\ mesh = CutPrism(4)
    /\ props = DefaultProps
    /\ counts["nonmanifold"] = PyInt(8)
    /\ counts["interior_faces"] = PyInt(1)
    /\ num_problems_found = PyInt(9)
    /\ check_three_poles(mesh)["verts"] # <<>>

\* C3: with every check disabled, find_problems finds zero problems
\* (found_zero_problems is true) and the count of every check is the
\* sentinel '(N/A - disabled)', not 0.
C3_AllDisabled ==
    (pc = "done" /\ \A s \in Symbols : ~props[s]) =>
        /\ num_problems_found = PyInt(0)
        /\ found_zero_problems(num_problems_found)
        /\ analysis = PyList(<<>>)
        /\ \A s \in Symbols : counts[s] = PyStr("(N/A - disabled)") /\ counts[s] # PyInt(0)

\* find_problems ran with every check disabled on a mesh that has problems
C3_Witness ==
    /\ pc = "done"
    /\ \A s \in Symbols : ~props[s]
    /\ mesh = CutPrism(4)
    /\ check_interior_faces(mesh)["faces"] # <<>>

-----------------------------------------------------------------------------
(* Properties of diff_analyses (SpecDiffer).  A check is an entry of         *)
(* CHECKS; its reports are the ones that carry its label.                  *)

Kinds == {ELEM_TYPES[i] : i \in 1..Len(ELEM_TYPES)}

RegisteredLabels == {CHECKS[i].label : i \in 1..Len(CHECKS)}

\* the reports of a value that is None or a list
ReportsOf(a) == IF a = None THEN <<>> ELSE a.list

\* how many elements of the kind k the report labelled `label` of a flags;
\* 0 when a has no such report or the report no such key
CountIn(a, label, k) ==
    LET r == ReportsOf(a)
        at == {<<i, j>> \in (1..Len(r)) \X (1..Len(ELEM_TYPES)) :
                  /\ r[i].lint.label = label
                  /\ j <= Len(r[i].items)
                  /\ r[i].items[j].elemtype = k}
    IN  IF at = {} THEN 0
        ELSE LET ij == CHOOSE ij \in at : TRUE IN Len(r[ij[1]].items[ij[2]].indices)

\* the growth of one kind of one check from before to after
Growth(label, k) == CountIn(PyList(after), label, k) - CountIn(before, label, k)

\* sub occurs in str
Contains(str, sub) ==
    \E i \in 1..(Len(str) - Len(sub) + 1) : SubSeq(str, i, i + Len(sub) - 1) = sub

\* the message names the check
Mentions(msg, label) == msg # None /\ Contains(msg.str, label \o ": ")

\* the part of the message that belongs to the check: from the colon after
\* its label up to the colon of the next check ("" when it is not named)
FragmentOf(msg, label) ==
    IF ~Mentions(msg, label) THEN ""
    ELSE LET str == msg.str
             at == CHOOSE i \in 1..Len(str) :
                      SubSeq(str, i, i + Len(label) + 1) = label \o ": "
             rest == SubSeq(str, at + Len(label), Len(str))
             colons == {j \in 2..Len(rest) : SubSeq(rest, j, j) = ":"}
         IN  IF colons = {} THEN rest
             ELSE SubSeq(rest, 1, (CHOOSE j \in colons : \A m \in colons : j <= m) - 1)

\* the singular of an element kind
Singular(k) ==
    CASE k = "verts" -> "vert"
      [] k = "edges" -> "edge"
      [] k = "faces" -> "face"

\* "<d> <kind>", the kind in the singular when d is 1
KindText(d, k) == ToString(d) \o " " \o (IF d = 1 THEN Singular(k) ELSE k)

\* the keys of the report of `after` labelled `label`, in order
KeysOf(label) ==
    LET i == CHOOSE i \in 1..Len(after) : after[i].lint.label = label
    IN  [j \in 1..Len(after[i].items) |-> after[i].items[j].elemtype]

\* C4: diff_analyses(X, X) is None for every analysis X.
C4_DiffSelfIsNone ==
    (pc = "done" /\ before = PyList(after)) => diff_msg = None

\* diff_analyses ran on twice the same analysis, which flags an element
C4_Witness ==
    /\ pc = "done"
    /\ before = PyList(after)
    /\ \E i \in 1..Len(after) : ~EmptyReport(after[i])
    /\ diff_msg = None

\* C5: diff_analyses(None, A) returns what diff_analyses(none_analysis(), A)
\* returns, none_analysis() being the baseline with one report per check and
\* every list empty.
C5_BaselineSubstitution ==
    (pc = "done" /\ before = None) =>
        /\ diff_msg = diff_analyses(PyList(none_analysis), PyList(after))
        /\ Len(none_analysis) = Len(CHECKS)
        /\ \A i \in 1..Len(CHECKS) :
              /\ none_analysis[i].lint.label = CHECKS[i].label
              /\ EmptyReport(none_analysis[i])

\* diff_analyses ran without a previous analysis and found something to tell
C5_Witness ==
    /\ pc = "done"
    /\ before = None
    /\ diff_msg # None
    /\ \E i \in 1..Len(after) : after[i].lint.label = "CheckB"

\* C6: when no kind of any check shrank from before to after and one grew,
\* the result is not None and names every check of which a kind grew.
C6_Monotonicity ==
    ( /\ pc = "done"
      /\ \A label \in RegisteredLabels, k \in Kinds : Growth(label, k) >= 0
      /\ \E label \in RegisteredLabels, k \in Kinds : Growth(label, k) > 0 )
    => /\ diff_msg # None
       /\ \A label \in RegisteredLabels :
             (\E k \in Kinds : Growth(label, k) > 0) => Mentions(diff_msg, label)

\* two checks grew from a previous analysis, none shrank, and both are named
C6_Witness ==
    /\ pc = "done"
    /\ before # None
    /\ \A label \in RegisteredLabels, k \in Kinds : Growth(label, k) >= 0
    /\ \E l1, l2 \in RegisteredLabels :
          /\ l1 # l2
          /\ \E k \in Kinds : Growth(l1, k) > 0
          /\ \E k \in Kinds : Growth(l2, k) > 0
          /\ Mentions(diff_msg, l1) /\ Mentions(diff_msg, l2)

\* C7: a kind of a check of `after` is told in the message iff its list is
\* longer in after than in before, and the number told is the difference; a
\* kind whose list shrank or kept its length is not told, whatever it holds.
C7_GrowthOnly ==
    pc = "done" =>
        \A label \in RegisteredLabels \cap LabelsOf(after), k \in Kinds :
            LET d == Growth(label, k)
                frag == FragmentOf(diff_msg, label)
            IN  /\ d > 0 <=> Contains(frag, " " \o Singular(k))
                /\ d > 0 => Contains(frag, " " \o KindText(d, k))

\* a list of a check holds other elements in after than in before, as many,
\* and nothing is told
C7_Witness ==
    /\ pc = "done"
    /\ diff_msg = None
    /\ \E i \in 1..Len(after), j \in 1..Len(ELEM_TYPES) :
          /\ after[i].lint.label \in RegisteredLabels
          /\ after[i].items[j].indices # <<>>
          /\ \E m \in 1..Len(ReportsOf(before)), n \in 1..Len(ELEM_TYPES) :
                /\ before.list[m].lint.label = after[i].lint.label
                /\ before.list[m].items[n].elemtype = after[i].items[j].elemtype
                /\ Len(before.list[m].items[n].indices) = Len(after[i].items[j].indices)
                /\ before.list[m].items[n].indices # after[i].items[j].indices

\* the message made of the fragments of the checks `labels` (in that order)
\* of which a kind grew, each "<Label>: <N1> <kind1>, <N2> <kind2>" with the
\* kinds in the order of the keys of the report of `after`
MessageOf(labels) ==
    LET told == SelectSeq(labels, LAMBDA label : \E k \in Kinds : Growth(label, k) > 0)
        fragment(label) ==
            LET ks == SelectSeq(KeysOf(label), LAMBDA k : Growth(label, k) > 0)
            IN  label \o ": " \o Join([i \in 1..Len(ks) |-> KindText(Growth(label, ks[i]), ks[i])], ", ")
    IN  "Found " \o Join([i \in 1..Len(told) |-> fragment(told[i])], ", ")

\* the labels of the checks reported in `after`, in the order of `after`
LabelsInAfterOrder ==
    SelectSeq([i \in 1..Len(after) |-> after[i].lint.label],
              LAMBDA label : label \in RegisteredLabels)

\* the labels of the checks reported in `after`, in registry order
LabelsInRegistryOrder ==
    SelectSeq([i \in 1..Len(CHECKS) |-> CHECKS[i].label],
              LAMBDA label : label \in LabelsOf(after))

\* the third call of test_comparison (the Tris/Nonmanifold scenario)
IsScenario ==
    /\ before = PyList(<<TestReport("Tris", <<>>, <<1, 4>>, <<>>),
                         TestReport("CheckB", <<>>, <<2, 3>>, <<>>),
                         TestReport("Nonmanifold Elements", <<>>, <<>>, <<2, 3>>)>>)
    /\ after = <<TestReport("Tris", <<>>, <<1, 4, 5, 6>>, <<>>),
                 TestReport("CheckB", <<>>, <<2, 3>>, <<>>),
                 TestReport("Nonmanifold Elements", <<1, 2, 3, 4>>, <<>>, <<1, 2, 3, 5>>)>>

ScenarioMessage == "Found Tris: 2 edges, Nonmanifold Elements: 4 verts, 2 faces"

\* C8 as claimed: a result that is not None is 'Found ' and the fragments
\* joined by ', ', the fragments in the order of the reports of `after` and the
\* kinds in the order of the keys of the report; the scenario gives its message.
C8_FragmentsInAfterOrder ==
    (pc = "done" /\ diff_msg # None) =>
        /\ diff_msg = PyStr(MessageOf(LabelsInAfterOrder))
        /\ IsScenario => diff_msg = PyStr(ScenarioMessage)

\* C8 amended: a result that is not None is 'Found ' and the fragments joined
\* by ', ', the fragments in the order of the checks in CHECKS (the order of
\* the reports of `after` when find_problems made it) and the kinds in the order
\* of the keys of the report; the scenario gives its message.
C8_FragmentsInRegistryOrder ==
    (pc = "done" /\ diff_msg # None) =>
        /\ diff_msg = PyStr(MessageOf(LabelsInRegistryOrder))
        /\ IsScenario => diff_msg = PyStr(ScenarioMessage)

\* `after` lists two checks against the registry order, its keys against the
\* order of ELEM_TYPES, and both checks are told
C8_Witness ==
    /\ pc = "done"
    /\ Len(after) = 2
    /\ after[1].lint.label = "Nonmanifold Elements"
    /\ after[2].lint.label = "Tris"
    /\ after[1].items[1].elemtype = "edges"
    /\ diff_msg = PyStr("Found Tris: 1 edge, Nonmanifold Elements: 1 vert")

\* what the report of `after` labelled `label` flags, told in full
FullFragment(label) ==
    LET ks == SelectSeq(KeysOf(label), LAMBDA k : CountIn(PyList(after), label, k) > 0)
    IN  label \o ": "
        \o Join([i \in 1..Len(ks) |-> KindText(CountIn(PyList(after), label, ks[i]), ks[i])], ", ")

\* C9: a check with a report in `after` and none in `before` is told with all
\* that its report flags, a check with a report in `before` only is not
\* told, and diff_analyses returns (None or a string) in both cases.
C9_ChangedCheckSet ==
    (pc = "done" /\ before # None) =>
        /\ diff_msg = None \/ DOMAIN diff_msg = {"str"}
        /\ \A label \in RegisteredLabels :
              /\ ( /\ label \in LabelsOf(after)
                   /\ label \notin LabelsOf(before.list)
                   /\ \E k \in Kinds : CountIn(PyList(after), label, k) > 0 )
                 => /\ diff_msg # None
                    /\ Contains(diff_msg.str \o ",", FullFragment(label) \o ",")
              /\ (label \in LabelsOf(before.list) /\ label \notin LabelsOf(after))
                 => ~Mentions(diff_msg, label)

\* one check is reported in `after` only and told, another in `before` only
C9_Witness ==
    /\ pc = "done"
    /\ before # None
    /\ \E l1, l2 \in RegisteredLabels :
          /\ l1 \in LabelsOf(after) /\ l1 \notin LabelsOf(before.list)
          /\ Mentions(diff_msg, l1)
          /\ l2 \in LabelsOf(before.list) /\ l2 \notin LabelsOf(after)
          /\ \E k \in Kinds : CountIn(before, l2, k) > 0

-----------------------------------------------------------------------------
(* Properties of depluralize (SpecDepluralize)                             *)

EndsWithS(str) == Len(str) > 0 /\ SubSeq(str, Len(str), Len(str)) = "s"

\* C10: with count 1 depluralize returns the string without its trailing
\* 's'; with another count it returns the string; a string that does not end
\* in a lower-case 's' is returned as it is whatever the count.
C10_Depluralize ==
    pc = "done" =>
        /\ (dep_count = 1 /\ EndsWithS(dep_string)) =>
              dep_result = PyStr(SubSeq(dep_string, 1, Len(dep_string) - 1))
        /\ dep_count # 1 => dep_result = PyStr(dep_string)
        /\ ~EndsWithS(dep_string) => dep_result = PyStr(dep_string)

\* where the message names the check (0 when it does not)
PositionOf(msg, label) ==
    IF ~Mentions(msg, label) THEN 0
    ELSE CHOOSE i \in 1..Len(msg.str) :
            /\ SubSeq(msg.str, i, i + Len(label) + 1) = label \o ": "
            /\ \A j \in 1..(i - 1) :
                  SubSeq(msg.str, j, j + Len(label) + 1) # label \o ": "

RegistryIndex(label) == CHOOSE i \in 1..Len(CHECKS) : CHECKS[i].label = label

\* C28: diff_analyses goes over the registry CHECKS, not over `after`: a
\* report of `after` whose label is no registered check's is left out of the
\* message even when its lists grew, and the fragments come in registry
\* order whatever the order of the reports in `after`.
C28_IteratesRegistry ==
    (pc = "done" /\ diff_msg # None) =>
        LET told == {label \in LabelsOf(after) : Mentions(diff_msg, label)}
        IN  /\ told \subseteq RegisteredLabels
            /\ \A l1, l2 \in told :
                  RegistryIndex(l1) < RegistryIndex(l2) =>
                     PositionOf(diff_msg, l1) < PositionOf(diff_msg, l2)

\* `after` lists two checks against the registry order and between them a
\* report of no check; all three grew, and the message tells the two checks
C28_Witness ==
    /\ pc = "done"
    /\ after = MixedReports
    /\ Growth("CheckB", "verts") > 0
    /\ diff_msg = PyStr("Found Tris: 1 face, Nonmanifold Elements: 1 edge")

\* C29: with count 1, depluralize takes exactly one character off a string
\* that ends in a lower-case 's': of several trailing 's' only the last goes
\* ('glass' gives 'glas').
C29_OneCharacter ==
    (pc = "done" /\ dep_count = 1 /\ EndsWithS(dep_string)) =>
        /\ Len(dep_result.str) = Len(dep_string) - 1
        /\ dep_result.str \o "s" = dep_string
        /\ dep_string = "glass" => dep_result = PyStr("glas")

-----------------------------------------------------------------------------
(* Properties of the continuous monitor (SpecMonitor)                      *)

\* the TopologyCounts of the mesh under edit, field by field
CurrentCounts ==
    [data |-> data,
     faces |-> Len(mesh.faces),
     edges |-> Len(mesh.edges),
     verts |-> Len(mesh.verts)]

\* nothing cached, or the cache is not the current TopologyCounts
CountsChanged ==
    previous_topology_counts = None \/ previous_topology_counts # CurrentCounts

Called(name) == \E i \in 1..Len(calls) : calls[i] = name
CalledNext(name) == \E i \in 1..Len(calls') : calls'[i] = name

\* the analysis of the mesh under edit
CurrentAnalysis == PyList(find_problems(mesh, props, counts).analysis)

\* C11: while the monitor is active and the host is in edit mode, a
\* notification runs find_problems iff no TopologyCounts are cached or the
\* current ones differ from the cached ones; with equal counts nothing is
\* analysed and both caches stay; on a recompute both caches take the
\* current values, whatever the diff says.
C11_RecomputeGate ==
    [][(Notify /\ is_live /\ is_edit_mode(mode)) =>
          /\ CalledNext("find_problems") <=> CountsChanged
          /\ ~CountsChanged =>
                UNCHANGED <<previous_analysis, previous_topology_counts>>
          /\ CountsChanged =>
                /\ previous_topology_counts' = CurrentCounts
                /\ previous_analysis' = CurrentAnalysis]_vars

\* a recompute that found nothing new to say, over a cache of an earlier one
C11_Witness ==
    /\ is_live
    /\ is_edit_mode(mode)
    /\ calls = <<"check", "find_problems">>
    /\ session_checks = "later"
    /\ previous_topology_counts = CurrentCounts
    /\ previous_analysis = CurrentAnalysis

\* the timestamp of the complaint on display is past the timeout
Expired ==
    /\ time_complained # None
    /\ now - time_complained.int > COMPLAINT_TIMEOUT

\* C12: a recompute pushes an announcement and stamps time_complained with
\* the current time iff the diff of the cached analysis and the new one is
\* not None; with a None diff the recompute touches neither (the header and
\* the timestamp stay, unless the timeout of the same notification clears
\* them).
C12_AnnounceIffDiff ==
    [][(Notify /\ is_edit_mode(mode) /\ CountsChanged) =>
          LET msg == diff_analyses(previous_analysis, CurrentAnalysis)
          IN  /\ CalledNext("announce") <=> msg # None
              /\ msg # None =>
                    /\ header' = PyStr("MeshLint: " \o msg.str)
                    /\ time_complained' = PyInt(now)
              /\ msg = None =>
                    IF Expired
                    THEN header' = None /\ time_complained' = None
                    ELSE UNCHANGED <<header, time_complained>>]_vars

\* a recompute has just announced a new problem
C12_Witness ==
    /\ is_edit_mode(mode)
    /\ calls = <<"check", "find_problems", "announce">>
    /\ time_complained = PyInt(now)
    /\ header # None

\* an announcement is on display, under a timestamp
Pending == header # None /\ time_complained # None

\* what C13 says of a notification: a pending announcement older than the
\* timeout, and not replaced by this notification, is cleared and none is
\* pending after; one of age at most the timeout stays
ExpiryStep ==
    /\ (Pending /\ Expired /\ ~CalledNext("announce")) =>
          /\ CalledNext("announce(None)")
          /\ header' = None
          /\ time_complained' = None
    /\ (Pending /\ ~Expired) =>
          /\ ~CalledNext("announce(None)")
          /\ time_complained' # None
          /\ header' # None

\* C13 as stated: every notification received while the monitor is active
\* clears a pending announcement older than 3 and leaves one of age at most 3.
C13_ExpiryWhileActive ==
    [][(Notify /\ is_live) => ExpiryStep]_vars

\* C13, amended: every notification received while the monitor is active and
\* the host is in edit mode clears a pending announcement older than 3,
\* recompute or not, and leaves one of age at most 3; outside edit mode the
\* announcement stays, whatever its age.
C13_ExpiryInEditMode ==
    [][(Notify /\ is_live) =>
          IF is_edit_mode(mode) THEN ExpiryStep
          ELSE UNCHANGED <<header, time_complained>>]_vars

\* a notification without a recompute has just cleared a timed-out complaint
C13_Witness ==
    /\ is_live
    /\ is_edit_mode(mode)
    /\ calls = <<"check", "announce(None)">>
    /\ header = None
    /\ time_complained = None

\* C14: a notification outside edit mode does nothing: no analysis, no
\* announcement set or cleared, and previous_analysis,
\* previous_topology_counts and time_complained stay.
C14_NoOpOutsideEditMode ==
    [][(Notify /\ ~is_edit_mode(mode)) =>
          /\ calls' = <<"check">>
          /\ UNCHANGED <<header, previous_analysis, previous_topology_counts,
                         time_complained, counts>>]_vars

\* a notification has just run outside edit mode, over a timed-out complaint
\* and a mesh the cache does not describe
C14_Witness ==
    /\ is_live
    /\ ~is_edit_mode(mode)
    /\ calls = <<"check">>
    /\ Pending
    /\ Expired
    /\ CountsChanged

Subscribed == \E i \in 1..Len(handlers) : handlers[i] = CALLBACK

\* C15: the monitor starts inactive (is_live False, the callback not
\* subscribed) and every toggle flips it: from inactive it subscribes
\* meshlint_gbl_continuous_check, from active it unsubscribes it and clears
\* the announcement from the header.
C15_TwoStateToggle ==
    /\ ~is_live /\ ~Subscribed
    /\ [][LiveToggle =>
             /\ is_live' = ~is_live
             /\ ~is_live =>
                   /\ handlers' = Append(handlers, CALLBACK)
                   /\ UNCHANGED header
             /\ is_live =>
                   /\ ~Subscribed'
                   /\ header' = None]_vars

\* the monitor has just been stopped while its complaint was not yet timed out
C15_Witness ==
    /\ ~is_live
    /\ ~Subscribed
    /\ calls = <<"execute">>
    /\ header = None
    /\ time_complained # None
    /\ previous_analysis # None
    /\ now - time_complained.int <= COMPLAINT_TIMEOUT

\* C16: a toggle leaves previous_analysis and previous_topology_counts as
\* they are, so that the first notification after an activation, on a mesh
\* whose identity and counts are the cached ones, runs no analysis and
\* announces nothing.
C16_CachesSurviveToggle ==
    [][/\ LiveToggle =>
             UNCHANGED <<previous_analysis, previous_topology_counts>>
       /\ (Notify /\ session_checks = "none" /\ is_edit_mode(mode)
              /\ previous_topology_counts = CurrentCounts) =>
             /\ ~CalledNext("find_problems")
             /\ ~CalledNext("announce")
             /\ UNCHANGED <<previous_analysis, previous_topology_counts>>]_vars

\* the first notification of a session has just found the caches of an
\* earlier session to be those of the mesh, and analysed nothing
C16_Witness ==
    /\ is_live
    /\ is_edit_mode(mode)
    /\ session_checks = "first"
    /\ ~Called("find_problems")
    /\ Called("check")
    /\ previous_analysis # None
    /\ previous_topology_counts = CurrentCounts

\* C17 as stated: stopping the monitor resets previous_analysis,
\* previous_topology_counts and time_complained to unset.
C17_ToggleOffResets ==
    [][(LiveToggle /\ is_live) =>
          /\ previous_analysis' = None
          /\ previous_topology_counts' = None
          /\ time_complained' = None]_vars

\* C17, amended: stopping the monitor keeps previous_analysis,
\* previous_topology_counts and time_complained as they are.
C17_ToggleOffKeeps ==
    [][(LiveToggle /\ is_live) =>
          UNCHANGED <<previous_analysis, previous_topology_counts,
                      time_complained, counts>>]_vars

\* the monitor has just been stopped with both caches and a timestamp set
C17_Witness ==
    /\ ~is_live
    /\ raised = None
    /\ calls = <<"execute">>
    /\ previous_analysis # None
    /\ previous_topology_counts # None
    /\ time_complained # None
    /\ time_complained # PyInt(0)

\* C18: the monitor's state starts unset (no previous analysis, no previous
\* topology counts, no timestamp of a complaint, not active), so that no
\* announcement counts as pending before the first one is emitted: the
\* monitor is inactive until the first toggle, and a notification that finds
\* no analysis cached has no complaint to time out.
C18_NothingPendingBeforeEmission ==
    /\ ~is_live
    /\ previous_analysis = None
    /\ previous_topology_counts = None
    /\ [][(Notify /\ is_edit_mode(mode) /\ previous_analysis = None) =>
             ~CalledNext("announce(None)")]_vars

-----------------------------------------------------------------------------
(* Properties of the comparison of TopologyCounts (SpecCompare)            *)

\* the objects i and j have as many verts, edges and faces
SameCounts(i, j) ==
    /\ Len(cmp_objs[i].b.verts) = Len(cmp_objs[j].b.verts)
    /\ Len(cmp_objs[i].b.edges) = Len(cmp_objs[j].b.edges)
    /\ Len(cmp_objs[i].b.faces) = Len(cmp_objs[j].b.faces)

SameData(i, j) == cmp_objs[i].data = cmp_objs[j].data

\* C19: two TopologyCounts compare equal iff their vert, edge and face
\* counts match and their mesh datablock is the same; the comparison is
\* reflexive, symmetric and transitive; and with the first as the cache, a
\* second of the same counts and another datablock forces the recompute.
C19_TopologyCountsEquality ==
    pc = "done" /\ cmp_result # Unset =>
        LET eq == cmp_result.eq
            I == DOMAIN cmp_objs
        IN  /\ \A i, j \in I : eq[i][j] <=> (SameCounts(i, j) /\ SameData(i, j))
            /\ \A i \in I : eq[i][i]
            /\ \A i, j \in I : eq[i][j] => eq[j][i]
            /\ \A i, j, k \in I : (eq[i][j] /\ eq[j][k]) => eq[i][k]
            /\ \A j \in I : cmp_result.recompute[j] <=> ~eq[1][j]
            /\ \A j \in I : (SameCounts(1, j) /\ ~SameData(1, j)) =>
                                cmp_result.recompute[j]

\* equal counts under two datablocks were compared, and found different
C19_Witness ==
    /\ pc = "done"
    /\ cmp_result # Unset
    /\ SameCounts(1, 2)
    /\ ~SameData(1, 2)
    /\ cmp_objs[1].b.faces # <<>>
    /\ cmp_result.recompute[2]
    /\ ~cmp_result.eq[1][2]

-----------------------------------------------------------------------------
(* Properties of check_tris and check_ngons (SpecAnalyzer)                 *)

\* how many edges bound the face of index i of the mesh
SidesOf(i) == Len(mesh.faces[i + 1].edges)

FaceIndices == {i - 1 : i \in 1..Len(mesh.faces)}
TriFaces == {i \in FaceIndices : SidesOf(i) = 3}
QuadFaces == {i \in FaceIndices : SidesOf(i) = 4}
NgonFaces == {i \in FaceIndices : SidesOf(i) > 4}

SetOf(list) == {list[i] : i \in 1..Len(list)}

\* the faces list of the report labelled `label` of the analysis
ReportedFaces(label) ==
    LET r == analysis.list
        i == CHOOSE i \in 1..Len(r) : r[i].lint.label = label
    IN  ItemsGet(r[i].items, "faces")

\* C20: check_tris flags exactly the faces bounded by 3 edges and
\* check_ngons exactly the faces bounded by more than 4; a quad is flagged
\* by neither, no face by both, each face once, and a mesh without faces
\* gets two empty lists; an enabled check reports the same list.
C20_TrisAndNgons ==
    pc = "done" /\ analysis # None =>
        LET tris == check_tris(mesh)["faces"]
            ngons == check_ngons(mesh)["faces"]
        IN  /\ SetOf(tris) = TriFaces
            /\ SetOf(ngons) = NgonFaces
            /\ Len(tris) = Cardinality(SetOf(tris))
            /\ Len(ngons) = Cardinality(SetOf(ngons))
            /\ QuadFaces \cap (SetOf(tris) \cup SetOf(ngons)) = {}
            /\ SetOf(tris) \cap SetOf(ngons) = {}
            /\ mesh.faces = <<>> => tris = <<>> /\ ngons = <<>>
            /\ props["tris"] => ReportedFaces("Tris") = tris
            /\ props["ngons"] => ReportedFaces("Ngons") = ngons

\* both checks ran on a mesh with a triangle and a face of more than 4 sides
C20_Witness ==
    /\ pc = "done"
    /\ analysis # None
    /\ props["tris"]
    /\ props["ngons"]
    /\ ReportedFaces("Tris") # <<>>
    /\ ReportedFaces("Ngons") # <<>>

-----------------------------------------------------------------------------
(* Properties of check_interior_faces and the pole checks (SpecAnalyzer)   *)

\* how many faces meet at the edge of index e of the mesh
FacesAt(e) == mesh.edges[e + 1].link_faces

\* the edges (indices) bounding the face of index i
EdgesOf(i) == SetOf(mesh.faces[i + 1].edges)

\* C21: check_interior_faces flags a face iff every edge bounding it has
\* more than 2 incident faces; a face with an edge of 1 or 2 incident faces
\* is never flagged.
C21_InteriorFaces ==
    pc = "done" /\ analysis # None =>
        LET flagged == check_interior_faces(mesh)["faces"]
        IN  /\ \A i \in FaceIndices :
                   i \in SetOf(flagged) <=> \A e \in EdgesOf(i) : FacesAt(e) > 2
            /\ \A i \in FaceIndices :
                   (\E e \in EdgesOf(i) : FacesAt(e) \in {1, 2}) =>
                        i \notin SetOf(flagged)
            /\ Len(flagged) = Cardinality(SetOf(flagged))
            /\ props["interior_faces"] => ReportedFaces("Interior Faces") = flagged

\* the check ran on a mesh with an interior face, next to faces that share
\* one crowded edge with it and are not interior
C21_Witness ==
    /\ pc = "done"
    /\ analysis # None
    /\ props["interior_faces"]
    /\ ReportedFaces("Interior Faces") # <<>>
    /\ \E i \in FaceIndices :
          /\ i \notin SetOf(ReportedFaces("Interior Faces"))
          /\ \E e \in EdgesOf(i) : FacesAt(e) > 2

\* how many edges meet at the vertex of index v of the mesh
DegreeOf(v) == mesh.verts[v + 1].link_edges

VertIndices == {i - 1 : i \in 1..Len(mesh.verts)}

\* the verts list of the report labelled `label` of the analysis
ReportedVerts(label) ==
    LET r == analysis.list
        i == CHOOSE i \in 1..Len(r) : r[i].lint.label = label
    IN  ItemsGet(r[i].items, "verts")

\* C22: check_three_poles, check_five_poles and check_sixplus_poles flag
\* exactly the vertices of 3, of 5 and of more than 5 incident edges; a
\* vertex of degree 0, 1, 2 or 4 is flagged by none and no vertex by two.
C22_Poles ==
    pc = "done" /\ analysis # None =>
        LET three == check_three_poles(mesh)["verts"]
            five == check_five_poles(mesh)["verts"]
            sixplus == check_sixplus_poles(mesh)["verts"]
        IN  /\ SetOf(three) = {v \in VertIndices : DegreeOf(v) = 3}
            /\ SetOf(five) = {v \in VertIndices : DegreeOf(v) = 5}
            /\ SetOf(sixplus) = {v \in VertIndices : DegreeOf(v) > 5}
            /\ \A v \in VertIndices :
                   DegreeOf(v) \in {0, 1, 2, 4} =>
                        v \notin SetOf(three) \cup SetOf(five) \cup SetOf(sixplus)
            /\ SetOf(three) \cap SetOf(five) = {}
            /\ SetOf(three) \cap SetOf(sixplus) = {}
            /\ SetOf(five) \cap SetOf(sixplus) = {}
            /\ Len(three) = Cardinality(SetOf(three))
            /\ Len(five) = Cardinality(SetOf(five))
            /\ Len(sixplus) = Cardinality(SetOf(sixplus))
            /\ props["three_poles"] => ReportedVerts("3-edge Poles") = three
            /\ props["five_poles"] => ReportedVerts("5-edge Poles") = five
            /\ props["sixplus_poles"] => ReportedVerts("6+-edge Poles") = sixplus

\* the three checks ran on a mesh with a vertex of 5 edges next to vertices
\* of 3
C22_Witness ==
    /\ pc = "done"
    /\ analysis # None
    /\ props["three_poles"] /\ props["five_poles"] /\ props["sixplus_poles"]
    /\ ReportedVerts("3-edge Poles") # <<>>
    /\ ReportedVerts("5-edge Poles") # <<>>
    /\ ReportedVerts("6+-edge Poles") = <<>>

\* the default cube: 8 vertices of 3 edges, 12 edges of 2 faces, 6 quads
IsDefaultCube ==
    /\ Len(mesh.verts) = 8 /\ \A v \in VertIndices : DegreeOf(v) = 3
    /\ Len(mesh.edges) = 12
    /\ \A i \in 1..Len(mesh.edges) :
          mesh.edges[i].link_faces = 2 /\ mesh.edges[i].is_manifold
    /\ \A i \in 1..Len(mesh.verts) : mesh.verts[i].is_manifold
    /\ Len(mesh.faces) = 6 /\ \A i \in FaceIndices : SidesOf(i) = 4

\* C23: on the default cube, with the checks enabled by default (tris,
\* ngons, nonmanifold, interior_faces and sixplus_poles on, three_poles and
\* five_poles off), tris, ngons, nonmanifold and interior_faces report zero
\* problems.
C23_DefaultCube ==
    (pc = "done" /\ IsDefaultCube /\ props = DefaultProps) =>
        /\ props["tris"] /\ props["ngons"] /\ props["nonmanifold"]
        /\ props["interior_faces"] /\ props["sixplus_poles"]
        /\ ~props["three_poles"] /\ ~props["five_poles"]
        /\ \A sym \in {"tris", "ngons", "nonmanifold", "interior_faces"} :
              counts[sym] = PyInt(0)
        /\ \A label \in {"Tris", "Ngons", "Nonmanifold Elements", "Interior Faces"} :
              CountOfLabel(analysis.list, label) = 0

\* find_problems ran on the default cube under the default checks
C23_Witness ==
    /\ pc = "done"
    /\ IsDefaultCube
    /\ mesh = Prism(4)
    /\ props = DefaultProps
    /\ num_problems_found = PyInt(0)

-----------------------------------------------------------------------------
(* Properties of build_object_criticisms (SpecCriticisms)                  *)

\* the defects of an object, an unapplied scale before a bad name
Defects(obj) ==
    (IF has_unapplied_scale(obj.scale) THEN <<"has an unapplied scale">> ELSE <<>>)
    \o (IF is_bad_name(obj.name) THEN <<"is not a great name">> ELSE <<>>)

\* every defect with its object, in object order
RECURSIVE AllDefects(_)
AllDefects(objects) ==
    IF objects = <<>> THEN <<>>
    ELSE LET obj == Head(objects)
         IN  [i \in DOMAIN Defects(obj) |-> [name |-> obj.name, crit |-> Defects(obj)[i]]]
             \o AllDefects(Tail(objects))

\* the line of the k-th defect
LineOf(defect, k, total) ==
    "..." \o (IF k = 1 /\ total = 0 THEN "but" ELSE "and also")
          \o " \"" \o defect.name \o "\" " \o defect.crit \o "."

\* C24: build_object_criticisms emits one line per defect in object order,
\* the unapplied scale of an object before its bad name; the first line says
\* 'but' iff total_problems is 0, every other line says 'and also'; an
\* object with a good name and an applied scale emits nothing.
C24_Criticisms ==
    pc = "done" =>
        LET defects == AllDefects(crit_objects)
        IN  crit_result =
               PyList([k \in DOMAIN defects |-> LineOf(defects[k], k, crit_total)])

C24_Witness ==
    /\ pc = "done"
    /\ crit_total = 0
    /\ Len(crit_objects) = 2
    /\ crit_objects[1].name = "lsmft" /\ ~has_unapplied_scale(crit_objects[1].scale)
    /\ crit_result = PyList(<<"...but \"Cube.001\" has an unapplied scale.",
                              "...and also \"Cube.001\" is not a great name.">>)

-----------------------------------------------------------------------------
(* Properties of the mode helpers (SpecMode)                               *)

\* C25: from any mode of the host, is_edit_mode() is true after
\* ensure_edit_mode() and false after ensure_not_edit_mode(); a second call
\* of either, right after the first, does not toggle the mode again.
C25_EnsureModes ==
    [][/\ EnsureEditMode => is_edit_mode(mode')
       /\ EnsureNotEditMode => ~is_edit_mode(mode')
       /\ (EnsureEditMode /\ Called("ensure_edit_mode")) =>
             (mode' = mode /\ ~CalledNext("editmode_toggle"))
       /\ (EnsureNotEditMode /\ Called("ensure_not_edit_mode")) =>
             (mode' = mode /\ ~CalledNext("editmode_toggle"))]_vars

\* ensure_edit_mode() has been called in edit mode and did not toggle
C25_Witness ==
    /\ calls = <<"ensure_edit_mode">>
    /\ is_edit_mode(mode)

-----------------------------------------------------------------------------
(* Properties of the life cycle (SpecLifecycle)                            *)

\* how often the callback is in the handler list
Subscriptions == Cardinality({i \in DOMAIN handlers : handlers[i] = CALLBACK})

\* C26: after unregister() meshlint_gbl_continuous_check is not in the
\* handler list, whatever toggles came before, and while the add-on stays
\* unregistered a notification does not run the check.
C26_UnregisterStops ==
    [][/\ Unregister => Subscriptions' = 0
       /\ (Notify /\ ~registered) => ~CalledNext("check")]_vars

\* unregister() has just run on a live monitor, next to a foreign handler
C26_Witness ==
    /\ calls = <<"unregister">>
    /\ is_live
    /\ handlers = <<FOREIGN>>

\* C27: in every state reached by toggles, unregister() and register() the
\* callback is subscribed once while is_live is True and not at all while it
\* is False, and no toggle has raised an error.
C27_SubscribedIffLive ==
    /\ is_live => Subscriptions = 1
    /\ ~is_live => Subscriptions = 0
    /\ raised = None

-----------------------------------------------------------------------------
(* The cache across meshes (SpecMonitor)                                   *)

\* the cached analysis was made of another mesh datablock than the active one
CachedOfOtherMesh ==
    /\ previous_topology_counts # None
    /\ previous_analysis # None
    /\ previous_topology_counts.data # data

\* the header after the step tells the kind k of the check
ToldNext(label, k) ==
    /\ CalledNext("announce")
    /\ Contains(FragmentOf(header', label), " " \o Singular(k))

\* C30: previous_analysis is one cache for every mesh: a notification for
\* another mesh than the one last analysed analyses the new mesh, diffs it
\* against the analysis of the previous mesh and caches it in its place, so
\* that a kind of a check is announced iff the new mesh has more of it than
\* the previous mesh had.
C30_CacheNotKeyedByMesh ==
    [][(Notify /\ is_edit_mode(mode) /\ CachedOfOtherMesh) =>
          /\ CalledNext("find_problems")
          /\ previous_analysis' = CurrentAnalysis
          /\ previous_topology_counts' = CurrentCounts
          /\ CalledNext("announce") <=>
                diff_analyses(previous_analysis, CurrentAnalysis) # None
          /\ \A label \in RegisteredLabels, k \in Kinds :
                ToldNext(label, k) <=>
                   CountIn(CurrentAnalysis, label, k) > CountIn(previous_analysis, label, k)]_vars

\* a notification has just analysed a triangle and announced none of its
\* problems: the mesh analysed before it had them all
C30_Witness ==
    /\ is_live
    /\ is_edit_mode(mode)
    /\ mesh = Polygon(3)
    /\ calls = <<"check", "find_problems">>
    /\ previous_topology_counts = CurrentCounts
    /\ \E label \in RegisteredLabels, k \in Kinds : CountIn(previous_analysis, label, k) > 0

====
